---- MODULE Spec2Model ----
(***************************************************************************)
(* SensorHub: content-addressed, frame-indexed compressed storage and the  *)
(* batch planner of the parallel decoder.                                  *)
(*                                                                         *)
(* Sizes are scaled: the frame writer cuts at MIN_CHUNK_SIZE/MAX_CHUNK_SIZE *)
(* (2 MiB / 4 MiB in the source) and reads READ_SIZE bytes at a time       *)
(* (64 KiB in the source); here they are a few bytes so that every cut     *)
(* rule is exercised by inputs of at most MaxLen bytes.                    *)
(***************************************************************************)
EXTENDS Integers, Sequences, FiniteSets, TLC

\* ------------------------------------------------------------------ bounds
MaxLen == 7
MIN_CHUNK_SIZE == 2
MAX_CHUNK_SIZE == 4
READ_SIZE == 3
CatalogLen == 4
MaxFiles == 2
MaxFrames == 4
MaxMinBatch == 3

\* A byte is a newline (10) or another character (97).
NL == 10
Byte == {10, 97}

Min(a, b) == IF a < b THEN a ELSE b

RECURSIVE SeqsUpTo(_)
SeqsUpTo(n) ==
    IF n = 0 THEN {<<>>}
    ELSE LET S == SeqsUpTo(n - 1)
         IN  S \cup {Append(s, b) : s \in {t \in S : Len(t) = n - 1}, b \in Byte}

Inputs == SeqsUpTo(MaxLen)

\* bytes[a:b] of Python, on a 1-based sequence (a, b are 0-based offsets).
Slice(s, a, b) == SubSeq(s, a + 1, Min(b, Len(s)))

\* ------------------------------------------------------------------ md5
\* hashlib.md5: a streaming hasher; distinct byte strings give distinct
\* digests (collision freedom is assumed of MD5).
ByteCode(b) == IF b = NL THEN 1 ELSE 2

RECURSIVE Md5Update(_, _)
Md5Update(h, chunk) ==
    IF chunk = <<>> THEN h
    ELSE Md5Update(h * 3 + ByteCode(Head(chunk)), Tail(chunk))

Md5Hex(data) == Md5Update(0, data)

\* ------------------------------------------------------------------ zstd
\* One standalone zstd frame: magic, content size, then the run-length
\* coded payload.  The frame is self-describing, so its end is found only
\* by decoding it.
ZSTD_MAGIC == 40

RECURSIVE RunLen(_, _)
RunLen(d, b) ==
    IF d = <<>> \/ Head(d) # b THEN 0 ELSE 1 + RunLen(Tail(d), b)

RECURSIVE Rle(_)
Rle(d) ==
    IF d = <<>> THEN <<>>
    ELSE LET k == RunLen(d, Head(d))
         IN  <<k, Head(d)>> \o Rle(SubSeq(d, k + 1, Len(d)))

Compress(d) == <<ZSTD_MAGIC, Len(d)>> \o Rle(d)

RECURSIVE Repeat(_, _)
Repeat(b, k) == IF k <= 0 THEN <<>> ELSE <<b>> \o Repeat(b, k - 1)

\* Decode the payload that starts at position p of f until n bytes have
\* been produced.
RECURSIVE DecodeRuns(_, _, _)
DecodeRuns(f, p, n) ==
    IF n = 0 THEN [ok |-> TRUE, data |-> <<>>, next |-> p]
    ELSE IF p + 1 > Len(f) \/ f[p] < 1 \/ f[p] > n \/ f[p + 1] \notin Byte
         THEN [ok |-> FALSE, data |-> <<>>, next |-> p]
    ELSE LET r == DecodeRuns(f, p + 2, n - f[p])
         IN  [ok |-> r.ok, data |-> Repeat(f[p + 1], f[p]) \o r.data, next |-> r.next]

\* Decode the frame that starts at position p (1-based) of f.
DecodeFrame(f, p) ==
    IF p + 1 > Len(f) \/ f[p] # ZSTD_MAGIC \/ f[p + 1] < 0
    THEN [ok |-> FALSE, data |-> <<>>, next |-> p]
    ELSE DecodeRuns(f, p + 2, f[p + 1])

\* dctx.decompress(compressed_data, max_output_size=dl): one frame, which
\* must start at the first byte of the data handed in.
Decompress(c) == DecodeFrame(c, 1)

RECURSIVE SplitRead(_)
SplitRead(d) ==
    IF Len(d) <= READ_SIZE THEN (IF d = <<>> THEN <<>> ELSE <<d>>)
    ELSE <<SubSeq(d, 1, READ_SIZE)>> \o SplitRead(SubSeq(d, READ_SIZE + 1, Len(d)))

\* dctx.stream_reader(ifh) read READ_SIZE bytes at a time until EOF: the
\* frames of the file are decoded one after the other, and a read never
\* returns bytes of two frames.  ok = FALSE: the reader raised (ZstdError)
\* after having returned `chunks`.
RECURSIVE StreamRead(_, _)
StreamRead(f, p) ==
    IF p > Len(f) THEN [ok |-> TRUE, chunks |-> <<>>]
    ELSE LET fr == DecodeFrame(f, p)
         IN  IF ~fr.ok THEN [ok |-> FALSE, chunks |-> <<>>]
             ELSE LET r == StreamRead(f, fr.next)
                  IN  [ok |-> r.ok, chunks |-> SplitRead(fr.data) \o r.chunks]

RECURSIVE Flatten(_)
Flatten(chunks) ==
    IF chunks = <<>> THEN <<>> ELSE Head(chunks) \o Flatten(Tail(chunks))

\* ------------------------------------------------------------------ frame writer
\* bytes.find(b'\n', start, end): 0-based offset of the first newline in
\* buf[start:end], or -1.
RECURSIVE Find(_, _, _)
Find(buf, start, end) ==
    IF start >= Min(end, Len(buf)) THEN -1
    ELSE IF buf[start + 1] = NL THEN start
    ELSE Find(buf, start + 1, end)

\* The state of one run of the frame writer.
NewWriter ==
    [raw_buffer |-> <<>>, frame_index |-> <<>>, out |-> <<>>,
     md5 |-> 0, offset |-> 0, upload_offset |-> 0]

\* Mutant: one byte too many is removed from the buffer.
EmitFrame_DropByte(w, cut_pos, ends_with_newline) ==
    LET chunk_data == Slice(w.raw_buffer, 0, cut_pos)
        compressed == Compress(chunk_data)
    IN  [w EXCEPT
           !.raw_buffer = Slice(w.raw_buffer, cut_pos + 1, Len(w.raw_buffer)),
           !.out = @ \o compressed,
           !.frame_index = Append(@, [cs |-> w.upload_offset, cl |-> Len(compressed),
                                      ds |-> w.offset, dl |-> Len(chunk_data),
                                      nl |-> ends_with_newline]),
           !.upload_offset = @ + Len(compressed),
           !.offset = @ + Len(chunk_data)]

\* Mutant: cs is taken from the decompressed offset.
EmitFrame_DsAsCs(w, cut_pos, ends_with_newline) ==
    LET chunk_data == Slice(w.raw_buffer, 0, cut_pos)
        compressed == Compress(chunk_data)
    IN  [w EXCEPT
           !.raw_buffer = Slice(w.raw_buffer, cut_pos, Len(w.raw_buffer)),
           !.out = @ \o compressed,
           !.frame_index = Append(@, [cs |-> w.offset, cl |-> Len(compressed),
                                      ds |-> w.offset, dl |-> Len(chunk_data),
                                      nl |-> ends_with_newline]),
           !.upload_offset = @ + Len(compressed),
           !.offset = @ + Len(chunk_data)]

\* "Extract, Compress, Write": close the frame raw_buffer[:cut_pos].
EmitFrame(w, cut_pos, ends_with_newline) ==
    LET chunk_data == Slice(w.raw_buffer, 0, cut_pos)
        compressed == Compress(chunk_data)
    IN  [w EXCEPT
           !.raw_buffer = Slice(w.raw_buffer, cut_pos, Len(w.raw_buffer)),
           !.out = @ \o compressed,
           !.frame_index = Append(@, [cs |-> w.upload_offset, cl |-> Len(compressed),
                                      ds |-> w.offset, dl |-> Len(chunk_data),
                                      nl |-> ends_with_newline]),
           !.upload_offset = @ + Len(compressed),
           !.offset = @ + Len(chunk_data)]

\* Mutant: the newline search starts at the beginning of the buffer.
CutFull_FromZero(w) ==
    LET newline_pos == Find(w.raw_buffer, 0, MAX_CHUNK_SIZE)
    IN  IF newline_pos # -1
        THEN EmitFrame(w, newline_pos + 1, TRUE)
        ELSE EmitFrame(w, MAX_CHUNK_SIZE, w.raw_buffer[MAX_CHUNK_SIZE] = NL)

\* Body of `while len(raw_buffer) >= MAX_CHUNK_SIZE`.
CutFull(w) ==
    LET newline_pos == Find(w.raw_buffer, MIN_CHUNK_SIZE, MAX_CHUNK_SIZE)
    IN  IF newline_pos # -1
        THEN EmitFrame(w, newline_pos + 1, TRUE)
        ELSE EmitFrame(w, MAX_CHUNK_SIZE, w.raw_buffer[MAX_CHUNK_SIZE] = NL)

\* Mutant: the flag is set only when the newline search found the cut.
CutTail_FlagFromSearch(w) ==
    LET len == Len(w.raw_buffer)
        limit == Min(len, MAX_CHUNK_SIZE)
        nl == IF len >= MIN_CHUNK_SIZE THEN Find(w.raw_buffer, MIN_CHUNK_SIZE, limit) ELSE -1
        cut_pos == IF nl # -1 THEN nl + 1 ELSE Min(len, MAX_CHUNK_SIZE)
    IN  EmitFrame(w, cut_pos, nl # -1)

\* Body of the end-of-stream loop `while raw_buffer`.
CutTail(w) ==
    LET len == Len(w.raw_buffer)
        limit == Min(len, MAX_CHUNK_SIZE)
        nl == IF len >= MIN_CHUNK_SIZE THEN Find(w.raw_buffer, MIN_CHUNK_SIZE, limit) ELSE -1
        cut_pos == IF nl # -1 THEN nl + 1 ELSE Min(len, MAX_CHUNK_SIZE)
    IN  EmitFrame(w, cut_pos, cut_pos > 0 /\ w.raw_buffer[cut_pos] = NL)

\* Mutant: frames are cut as soon as the minimum has accumulated.
RECURSIVE DrainFull_Eager(_)
DrainFull_Eager(w) ==
    IF Len(w.raw_buffer) >= MIN_CHUNK_SIZE THEN DrainFull_Eager(CutTail(w)) ELSE w

RECURSIVE DrainFull(_)
DrainFull(w) ==
    IF Len(w.raw_buffer) >= MAX_CHUNK_SIZE THEN DrainFull(CutFull(w)) ELSE w

\* One received chunk: hash it, buffer it, cut the frames that are due.
FeedChunk(w, chunk) ==
    DrainFull([w EXCEPT !.raw_buffer = @ \o chunk, !.md5 = Md5Update(@, chunk)])

RECURSIVE FeedAll(_, _)
FeedAll(w, chunks) ==
    IF chunks = <<>> THEN w ELSE FeedAll(FeedChunk(w, Head(chunks)), Tail(chunks))

RECURSIVE FlushTail(_)
FlushTail(w) ==
    IF w.raw_buffer # <<>> THEN FlushTail(CutTail(w)) ELSE w

\* The index object built from a finished writer.
CompleteIndex(w, compressedSize) ==
    [version |-> 2, frameSize |-> MIN_CHUNK_SIZE, maxFrameSize |-> MAX_CHUNK_SIZE,
     lineAligned |-> TRUE, originalSize |-> w.offset,
     compressedSize |-> compressedSize, frames |-> w.frame_index]


\* ------------------------------------------------------------------ batch planner
RECURSIVE SumCl(_)
SumCl(fs) == IF fs = <<>> THEN 0 ELSE Head(fs).cl + SumCl(Tail(fs))

BatchMeta(batch_id, start_frame_idx, end_frame_idx, pending_frames) ==
    [batch_id |-> batch_id, start_frame_idx |-> start_frame_idx,
     end_frame_idx |-> end_frame_idx, compressed_bytes |-> SumCl(pending_frames),
     frames |-> pending_frames]

\* Mutant: a batch closes on the frame count alone.
CloseDue_CountOnly(pending_frames, frame, min_frames) ==
    Len(pending_frames) >= min_frames

\* `len(pending_frames) >= min_batch_frames and frame["nl"]`
CloseDue(pending_frames, frame, min_frames) ==
    Len(pending_frames) >= min_frames /\ frame.nl

\* One pass of `for idx, frame in enumerate(frames)`; idx is 0-based.
BatchStep(st, idx, frame, min_frames) ==
    LET start == IF st.pending_frames = <<>> THEN idx ELSE st.pending_start_idx
        pending == Append(st.pending_frames, frame)
    IN  IF CloseDue(pending, frame, min_frames)
        THEN [batches |-> Append(st.batches,
                                 BatchMeta(Len(st.batches), start, idx, pending)),
              pending_frames |-> <<>>, pending_start_idx |-> start]
        ELSE [batches |-> st.batches, pending_frames |-> pending,
              pending_start_idx |-> start]

RECURSIVE BatchLoop(_, _, _, _)
BatchLoop(st, idx, fs, min_frames) ==
    IF idx >= Len(fs) THEN st
    ELSE BatchLoop(BatchStep(st, idx, fs[idx + 1], min_frames), idx + 1, fs, min_frames)

\* Mutant: frames left pending at the end are not emitted.
TrailingBatch_Dropped(st, fs) == st.batches

\* `if pending_frames: batches.append(...)`
TrailingBatch(st, fs) ==
    IF st.pending_frames # <<>>
    THEN Append(st.batches,
                BatchMeta(Len(st.batches), st.pending_start_idx, Len(fs) - 1,
                          st.pending_frames))
    ELSE st.batches

\* _build_batches(frames, min_batch_frames)
BuildBatches(fs, min_frames) ==
    TrailingBatch(BatchLoop([batches |-> <<>>, pending_frames |-> <<>>,
                             pending_start_idx |-> 0], 0, fs, min_frames), fs)

\* ------------------------------------------------------------------ reading by index
\* _worker_parse_batch: seek to cs, read cl bytes, decompress that frame on
\* its own; the decoded frames are joined in the order given.
RECURSIVE ReadFrames(_, _)
ReadFrames(file, fs) ==
    IF fs = <<>> THEN [ok |-> TRUE, data |-> <<>>]
    ELSE LET fr == Decompress(Slice(file, Head(fs).cs, Head(fs).cs + Head(fs).cl))
             r == ReadFrames(file, Tail(fs))
         IN  [ok |-> fr.ok /\ fr.next = Head(fs).cl + 1 /\ r.ok,
              data |-> fr.data \o r.data]

\* str.splitlines() on text without carriage returns: the pieces between
\* newlines, without a final empty piece. cur is the line being read.
RECURSIVE SplitLines(_, _)
SplitLines(text, cur) ==
    IF text = <<>> THEN (IF cur = <<>> THEN <<>> ELSE <<cur>>)
    ELSE IF Head(text) = NL THEN <<cur>> \o SplitLines(Tail(text), <<>>)
    ELSE SplitLines(Tail(text), Append(cur, Head(text)))

\* _normalize_frames: cs, cl, dl and nl of every frame.
NormalizeFrames(fs) ==
    [i \in 1..Len(fs) |-> [cs |-> fs[i].cs, cl |-> fs[i].cl, dl |-> fs[i].dl,
                           nl |-> fs[i].nl]]

\* Mutant: every frame is split into lines on its own.
RECURSIVE BatchLines_PerFrame(_, _)
BatchLines_PerFrame(file, fs) ==
    IF fs = <<>> THEN <<>>
    ELSE SplitLines(ReadFrames(file, <<Head(fs)>>).data, <<>>)
             \o BatchLines_PerFrame(file, Tail(fs))

\* _worker_parse_batch: `"".join(frame_text_parts).splitlines()`, the lines
\* handed to parse_lines for the frames of one batch.
BatchLines(file, fs) == SplitLines(ReadFrames(file, fs).data, <<>>)

\* JSON values that are not what the validator expects: a value that is not
\* a dict carries the field notdict; a key whose value is missing or not an
\* integer (or, for "frames", not a list) is left out of the record.
NotADict == [notdict |-> TRUE]
IsDict(v) == "notdict" \notin DOMAIN v
HasInt(frame, key) == key \in DOMAIN frame

\* `for key in ("cs", "cl", "dl")`: the first key that is not an integer or
\* is negative.
KeyFault(frame) ==
    IF ~HasInt(frame, "cs") THEN "cs is not int"
    ELSE IF frame.cs < 0 THEN "cs < 0"
    ELSE IF ~HasInt(frame, "cl") THEN "cl is not int"
    ELSE IF frame.cl < 0 THEN "cl < 0"
    ELSE IF ~HasInt(frame, "dl") THEN "dl is not int"
    ELSE IF frame.dl < 0 THEN "dl < 0"
    ELSE "ok"

\* compressed_size = None; line 169 treats None and a size <= 0 alike.
NoSize == -1

\* Mutant: a later frame may start anywhere.
RECURSIVE ValidateFrames_AnyStart(_, _, _)
ValidateFrames_AnyStart(fs, idx, prev_end) ==
    IF idx >= Len(fs) THEN [valid |-> TRUE, reason |-> "ok", prev_end |-> prev_end]
    ELSE LET frame == fs[idx + 1]
         IN  IF ~IsDict(frame)
             THEN [valid |-> FALSE, reason |-> "is not dict", prev_end |-> prev_end]
             ELSE IF KeyFault(frame) # "ok"
             THEN [valid |-> FALSE, reason |-> KeyFault(frame), prev_end |-> prev_end]
             ELSE IF idx = 0 /\ frame.cs # 0
             THEN [valid |-> FALSE, reason |-> "first frame cs != 0", prev_end |-> prev_end]
             ELSE ValidateFrames_AnyStart(fs, idx + 1, frame.cs + frame.cl)

\* The loop of validate_frame_index over frames[idx..], prev_end being the
\* end of the frame before; idx is 0-based.
RECURSIVE ValidateFrames(_, _, _)
ValidateFrames(fs, idx, prev_end) ==
    IF idx >= Len(fs) THEN [valid |-> TRUE, reason |-> "ok", prev_end |-> prev_end]
    ELSE LET frame == fs[idx + 1]
         IN  IF ~IsDict(frame)
             THEN [valid |-> FALSE, reason |-> "is not dict", prev_end |-> prev_end]
             ELSE IF KeyFault(frame) # "ok"
             THEN [valid |-> FALSE, reason |-> KeyFault(frame), prev_end |-> prev_end]
             ELSE IF idx = 0 /\ frame.cs # 0
             THEN [valid |-> FALSE, reason |-> "first frame cs != 0", prev_end |-> prev_end]
             ELSE IF idx > 0 /\ frame.cs # prev_end
             THEN [valid |-> FALSE, reason |-> "cs is not contiguous", prev_end |-> prev_end]
             ELSE ValidateFrames(fs, idx + 1, frame.cs + frame.cl)

\* ParserDispatcher.validate_frame_index(frame_index, compressed_size);
\* [none |-> TRUE] stands for a missing index.
ValidateFrameIndex(frame_index, compressed_size) ==
    IF frame_index = [none |-> TRUE]
    THEN [valid |-> FALSE, reason |-> "frame_index is None"]
    ELSE IF ~IsDict(frame_index)
    THEN [valid |-> FALSE, reason |-> "frame_index is not dict"]
    ELSE IF "frames" \notin DOMAIN frame_index
    THEN [valid |-> FALSE, reason |-> "frames is empty or invalid"]
    ELSE IF Len(frame_index.frames) = 0
    THEN [valid |-> FALSE, reason |-> "frames is empty or invalid"]
    ELSE LET r == ValidateFrames(frame_index.frames, 0, 0)
         IN  IF ~r.valid THEN [valid |-> FALSE, reason |-> r.reason]
             ELSE IF compressed_size > 0 /\ r.prev_end > compressed_size
             THEN [valid |-> FALSE, reason |-> "frame compressed range exceeds file size"]
             ELSE [valid |-> TRUE, reason |-> "ok"]

\* ------------------------------------------------------------------ state
VARIABLES
    content,          \* the bytes of the log file this run is about
    raw_dir,          \* settings.RAW_DIR: path -> bytes of the files present
    physical_files,   \* table physical_files: hash -> row
    sensor_files,     \* table sensor_files: set of rows
    next_id,          \* uuid4() source for sensor file ids
    verify_tasks,     \* background verification tasks not yet run
    task,             \* the device-import download task
    ret,              \* what the last finished operation returned / did
    prev,             \* ret of the operation before it
    frames,           \* input of the batch planner
    min_batch_frames, \* input of the batch planner
    batches,          \* output of the batch planner
    validation,       \* a call of validate_frame_index: arguments and result
    text_lines,       \* the text lines of the file being parsed
    parsed,           \* what the two decoders returned for text_lines
    job,              \* the parse task: where it stands and its locals
    futures,          \* the executor's futures, one per submitted batch
    ordered_results,  \* decompress_and_parse_parallel: batch_id -> result
    published,        \* every parse_progress.update so far, in order
    parse_result,     \* the ParseResult row of the file and what was written to it
    progress_call,    \* a call of map_parallel_progress: arguments and result
    parse_results,    \* table parse_results at application startup
    manager,          \* ParseProgressManager: _state and _subscribers of a file id
    subscriber,       \* the running subscribe() generators and what they yielded
    to_publish,       \* the updates the parse task of the file id has yet to make
    requests,         \* the upload and the deletion in flight, and what has been
    processed_dirs,   \* the hashes that have a processed directory
    cancel_event,     \* DownloadManager.cancel_event is set
    download,         \* where the download task stands and what it saw of the flag
    runs,             \* the parse tasks running for one file, each with its position
    packets_call      \* a packet summary in the making: type codes, tally, report

vars == <<content, raw_dir, physical_files, sensor_files, next_id, verify_tasks,
          task, ret, prev, frames, min_batch_frames, batches, validation,
          text_lines, parsed, job, futures, ordered_results, published,
          parse_result, progress_call, parse_results, manager, subscriber,
          to_publish, requests, processed_dirs, cancel_event, download, runs,
          packets_call>>

storeVars == <<content, raw_dir, physical_files, sensor_files, next_id,
               verify_tasks, task, ret, prev>>
batchVars == <<frames, min_batch_frames, batches>>
subscribeVars == <<manager, subscriber, to_publish>>
deleteVars == <<requests, processed_dirs>>
cancelVars == <<cancel_event, download>>
runVars == <<runs>>
packetVars == <<packets_call>>
auxVars == <<progress_call, parse_results, subscribeVars, deleteVars, cancelVars,
             runVars, packetVars>>
jobVars == <<job, futures, ordered_results, published, parse_result, auxVars>>
parseVars == <<validation, text_lines, parsed, jobVars>>
coreVars == <<storeVars, batchVars, validation, text_lines, parsed, job, futures,
              ordered_results, published, parse_result>>

None == [none |-> TRUE]
Names == {"a.rawdata", "b.rawdata"}

Put(f, k, v) == [x \in DOMAIN f \cup {k} |-> IF x = k THEN v ELSE f[x]]
Remove(f, k) == [x \in DOMAIN f \ {k} |-> f[x]]
EmptyDir == [x \in {} |-> <<>>]

\* StorageService.get_raw_path and the two temporary names.
RawPath(file_hash) == <<"raw", file_hash>>
RebuildTemp == <<"rebuild", 0>>
DownloadTemp == <<"temp", 0>>

\* The bytes stored at a path, None when there is no such file.
BlobAt(dir, path) == IF path \in DOMAIN dir THEN [bytes |-> dir[path]] ELSE None

\* A different file: the last byte of d flipped (one byte for the empty d).
Variant(d) ==
    IF d = <<>> THEN <<97>>
    ELSE [d EXCEPT ![Len(d)] = IF @ = NL THEN 97 ELSE NL]

\* What a client may send for data d: d compressed as one frame or as two.
ClientStreams(d) ==
    {Compress(d)} \cup
    {Compress(SubSeq(d, 1, k)) \o Compress(SubSeq(d, k + 1, Len(d))) : k \in 1..(Len(d) - 1)}

\* A stream damaged in transit: its last byte is lost.
Truncated(s) == SubSeq(s, 1, Len(s) - 1)

NoRet ==
    [op |-> "none", hash |-> 0, data |-> <<>>, valid |-> FALSE, rebuilt |-> FALSE,
     frame_index |-> None, file_size_bytes |-> 0, written |-> <<>>, io |-> 0,
     existed |-> FALSE, blob_before |-> None]

\* ------------------------------------------------------------------ verify_and_rebuild_index
InvalidResult ==
    [valid |-> FALSE, rebuilt |-> FALSE, frame_index |-> None, file_size_bytes |-> 0]

\* Mutant: on a hash mismatch the temporary file is left behind.
VerifyAndRebuildIndex_LeaveTemp(dir, file_path, expected_md5) ==
    IF file_path \notin DOMAIN dir
    THEN [dir |-> dir, res |-> InvalidResult, written |-> <<>>, input |-> <<>>]
    ELSE LET rd == StreamRead(dir[file_path], 1)
             fed == FeedAll(NewWriter, rd.chunks)
             w == FlushTail(fed)
         IN  IF ~rd.ok
             THEN [dir |-> Remove(Put(dir, RebuildTemp, fed.out), RebuildTemp),
                   res |-> InvalidResult, written |-> fed.out,
                   input |-> Flatten(rd.chunks)]
             ELSE IF w.md5 # expected_md5
             THEN [dir |-> Put(dir, RebuildTemp, w.out),
                   res |-> InvalidResult, written |-> w.out,
                   input |-> Flatten(rd.chunks)]
             ELSE [dir |-> Remove(Put(Put(dir, RebuildTemp, w.out), file_path, w.out),
                                  RebuildTemp),
                   res |-> [valid |-> TRUE, rebuilt |-> TRUE,
                            frame_index |-> CompleteIndex(w, w.upload_offset),
                            file_size_bytes |-> w.offset],
                   written |-> w.out, input |-> Flatten(rd.chunks)]

\* Mutant: a verified file is kept as it is; only the index is computed.
VerifyAndRebuildIndex_KeepFile(dir, file_path, expected_md5) ==
    IF file_path \notin DOMAIN dir
    THEN [dir |-> dir, res |-> InvalidResult, written |-> <<>>, input |-> <<>>]
    ELSE LET rd == StreamRead(dir[file_path], 1)
             fed == FeedAll(NewWriter, rd.chunks)
             w == FlushTail(fed)
         IN  IF ~rd.ok
             THEN [dir |-> Remove(Put(dir, RebuildTemp, fed.out), RebuildTemp),
                   res |-> InvalidResult, written |-> fed.out,
                   input |-> Flatten(rd.chunks)]
             ELSE IF w.md5 # expected_md5
             THEN [dir |-> Remove(Put(dir, RebuildTemp, w.out), RebuildTemp),
                   res |-> InvalidResult, written |-> w.out,
                   input |-> Flatten(rd.chunks)]
             ELSE [dir |-> Remove(Put(dir, RebuildTemp, w.out), RebuildTemp),
                   res |-> [valid |-> TRUE, rebuilt |-> TRUE,
                            frame_index |-> CompleteIndex(w, w.upload_offset),
                            file_size_bytes |-> w.offset],
                   written |-> w.out, input |-> Flatten(rd.chunks)]

\* StorageService.verify_and_rebuild_index(file_path, expected_md5):
\* the directory afterwards, the returned dict, and the bytes written.
VerifyAndRebuildIndex(dir, file_path, expected_md5) ==
    IF file_path \notin DOMAIN dir
    THEN [dir |-> dir, res |-> InvalidResult, written |-> <<>>, input |-> <<>>]
    ELSE LET rd == StreamRead(dir[file_path], 1)
             fed == FeedAll(NewWriter, rd.chunks)
             w == FlushTail(fed)
         IN  IF ~rd.ok
             THEN \* except-branch: the temp file holds the frames cut so far
                  [dir |-> Remove(Put(dir, RebuildTemp, fed.out), RebuildTemp),
                   res |-> InvalidResult, written |-> fed.out,
                   input |-> Flatten(rd.chunks)]
             ELSE IF w.md5 # expected_md5
             THEN [dir |-> Remove(Put(dir, RebuildTemp, w.out), RebuildTemp),
                   res |-> InvalidResult, written |-> w.out,
                   input |-> Flatten(rd.chunks)]
             ELSE \* os.replace(temp_path, file_path)
                  [dir |-> Remove(Put(Put(dir, RebuildTemp, w.out), file_path, w.out),
                                  RebuildTemp),
                   res |-> [valid |-> TRUE, rebuilt |-> TRUE,
                            frame_index |-> CompleteIndex(w, w.upload_offset),
                            file_size_bytes |-> w.offset],
                   written |-> w.out, input |-> Flatten(rd.chunks)]

VerifyRet(file_path, expected_md5, r) ==
    [NoRet EXCEPT !.op = "verify", !.hash = expected_md5, !.data = r.input,
                  !.valid = r.res.valid, !.rebuilt = r.res.rebuilt,
                  !.frame_index = r.res.frame_index,
                  !.file_size_bytes = r.res.file_size_bytes,
                  !.written = r.written, !.io = Len(r.written),
                  !.existed = file_path \in DOMAIN raw_dir,
                  !.blob_before = BlobAt(raw_dir, file_path)]


\* ------------------------------------------------------------------ upload
\* crud.get_exact_match_file
ExactMatch(file_hash, filename) ==
    {f \in sensor_files : f.file_hash = file_hash /\ f.filename = filename}

NewSensorFile(file_hash, filename) ==
    [id |-> next_id, file_hash |-> file_hash, filename |-> filename,
     file_status |-> "unverified"]

\* POST /files/upload with the client's stream, the MD5 the client computed
\* over `data`, and a file name.
UploadFile(data, stream, filename) ==
    LET md5 == Md5Hex(data)
        expected_raw_path == RawPath(md5)
        hit == md5 \in DOMAIN physical_files /\ expected_raw_path \in DOMAIN raw_dir
        base == [NoRet EXCEPT !.op = "upload", !.hash = md5, !.data = data,
                              !.existed = hit,
                              !.blob_before = BlobAt(raw_dir, expected_raw_path)]
    IN  /\ next_id <= MaxFiles
        /\ IF hit
           THEN \* instant upload: nothing is written
                /\ IF ExactMatch(md5, filename) # {}
                   THEN UNCHANGED <<sensor_files, next_id>>
                   ELSE /\ sensor_files' = sensor_files \cup {NewSensorFile(md5, filename)}
                        /\ next_id' = next_id + 1
                /\ ret' = base
                /\ UNCHANGED <<raw_dir, physical_files, verify_tasks>>
           ELSE \* save_zstd_stream overwrites the blob path, then the rows
                /\ raw_dir' = Put(raw_dir, expected_raw_path, stream)
                /\ physical_files' =
                       IF md5 \in DOMAIN physical_files THEN physical_files
                       ELSE Put(physical_files, md5,
                                [size |-> Len(stream), frame_index |-> None])
                /\ sensor_files' = sensor_files \cup {NewSensorFile(md5, filename)}
                /\ next_id' = next_id + 1
                /\ verify_tasks' = verify_tasks \cup {[file_id |-> next_id, md5 |-> md5]}
                /\ ret' = [base EXCEPT !.written = stream, !.io = Len(stream)]
        /\ UNCHANGED <<content, task, prev, batchVars, parseVars>>

\* The streams that may arrive for data d: intact (one frame, or two frames
\* cut in the middle), truncated in transit, or carrying other bytes than
\* the ones the MD5 was computed over.
UploadStreams(d) ==
    {Compress(d),
     Compress(SubSeq(d, 1, Len(d) \div 2)) \o Compress(SubSeq(d, Len(d) \div 2 + 1, Len(d))),
     Truncated(Compress(d)),
     Compress(Variant(d))}

Upload ==
    \E filename \in Names, stream \in UploadStreams(content) :
        UploadFile(content, stream, filename)

SetStatus(file_id, st) ==
    {IF f.id = file_id THEN [f EXCEPT !.file_status = st] ELSE f : f \in sensor_files}

\* files.py verify_upload_task: verify_integrity keeps only res["valid"].
VerifyUploadTask ==
    \E t \in verify_tasks :
        LET path == RawPath(t.md5)
            r == VerifyAndRebuildIndex(raw_dir, path, t.md5)
        IN  /\ raw_dir' = r.dir
            /\ verify_tasks' = verify_tasks \ {t}
            /\ ret' = VerifyRet(path, t.md5, r)
            /\ UNCHANGED <<content, physical_files, sensor_files, next_id, task,
                           prev, batchVars, parseVars>>

\* FileService.verify_upload_task: stores the rebuilt index and the new size.
FileServiceVerifyUploadTask ==
    \E t \in verify_tasks :
        LET path == RawPath(t.md5)
            r == VerifyAndRebuildIndex(raw_dir, path, t.md5)
        IN  /\ raw_dir' = r.dir
            /\ verify_tasks' = verify_tasks \ {t}
            /\ IF r.res.valid
               THEN /\ physical_files' =
                          IF t.md5 \in DOMAIN physical_files
                          THEN [physical_files EXCEPT ![t.md5] =
                                   [size |-> Len(r.dir[path]),
                                    frame_index |-> r.res.frame_index]]
                          ELSE physical_files
                    /\ sensor_files' = SetStatus(t.file_id, "verified")
               ELSE /\ sensor_files' = SetStatus(t.file_id, "error")
                    /\ UNCHANGED physical_files
            /\ ret' = VerifyRet(path, t.md5, r)
            /\ UNCHANGED <<content, next_id, task, prev, batchVars, parseVars>>

\* ------------------------------------------------------------------ device import
IdleTask == [state |-> "idle", filename |-> "", data |-> <<>>, body |-> <<>>,
             w |-> NewWriter]

\* DownloadManager.start_download: the device will serve `data`.
StartDownload(filename, data) ==
        /\ task.state \in {"idle", "success", "failed", "cancelled"}
        /\ next_id <= MaxFiles
        /\ task' = [state |-> "queued", filename |-> filename, data |-> data,
                    body |-> data, w |-> NewWriter]
        /\ UNCHANGED <<content, raw_dir, physical_files, sensor_files, next_id,
                       verify_tasks, ret, prev, batchVars, parseVars>>

\* An import request for one file of the device: the bytes of this run's
\* log, or another file.
Import ==
    \E filename \in Names, data \in {content, Variant(content)} :
        StartDownload(filename, data)

\* _download_task up to the first chunk: the response is open and the
\* temporary file has been created.
DownloadBegin ==
    /\ task.state = "queued"
    /\ task' = [task EXCEPT !.state = "processing"]
    /\ raw_dir' = Put(raw_dir, DownloadTemp, <<>>)
    /\ UNCHANGED <<content, physical_files, sensor_files, next_id, verify_tasks,
                   ret, prev, batchVars, parseVars>>

\* One pass of `for chunk in resp.iter_content(...)`.
DownloadChunk ==
    /\ task.state = "processing"
    /\ task.body # <<>>
    /\ \E n \in 1..Min(READ_SIZE, Len(task.body)) :
          LET w2 == FeedChunk(task.w, SubSeq(task.body, 1, n))
          IN  /\ task' = [task EXCEPT !.w = w2,
                                      !.body = SubSeq(task.body, n + 1, Len(task.body))]
              /\ raw_dir' = Put(raw_dir, DownloadTemp, w2.out)
    /\ UNCHANGED <<content, physical_files, sensor_files, next_id, verify_tasks,
                   ret, prev, batchVars, parseVars>>

\* requests / the stream raises: the outer except-branch.
DownloadError ==
    /\ task.state \in {"queued", "processing"}
    /\ task' = [task EXCEPT !.state = "failed"]
    /\ raw_dir' = Remove(raw_dir, DownloadTemp)
    /\ UNCHANGED <<content, physical_files, sensor_files, next_id, verify_tasks,
                   ret, prev, batchVars, parseVars>>

\* Mutant: the temporary file always replaces the blob.
DedupBlob_Overwrite(dir, final_path) ==
    Remove(Put(dir, final_path, dir[DownloadTemp]), DownloadTemp)

\* "File dedup": the temporary file is dropped when the blob exists, and
\* renamed to the blob path otherwise.
DedupBlob(dir, final_path) ==
    IF final_path \in DOMAIN dir
    THEN Remove(dir, DownloadTemp)
    ELSE Remove(Put(dir, final_path, dir[DownloadTemp]), DownloadTemp)

\* End of stream: the remaining buffer is cut, then dedup and registration.
DownloadFinish ==
    /\ task.state = "processing"
    /\ task.body = <<>>
    /\ LET w == FlushTail(task.w)
           file_hash == w.md5
           final_path == RawPath(file_hash)
           written == Put(raw_dir, DownloadTemp, w.out)
           compressed_size == Len(written[DownloadTemp])
           exists == final_path \in DOMAIN raw_dir
           complete_frame_index == CompleteIndex(w, compressed_size)
       IN  /\ raw_dir' = DedupBlob(written, final_path)
           /\ physical_files' =
                  IF file_hash \notin DOMAIN physical_files
                  THEN Put(physical_files, file_hash,
                           [size |-> compressed_size,
                            frame_index |-> complete_frame_index])
                  ELSE IF physical_files[file_hash].frame_index = None
                  THEN [physical_files EXCEPT
                           ![file_hash].frame_index = complete_frame_index]
                  ELSE physical_files
           /\ IF ExactMatch(file_hash, task.filename) # {}
              THEN UNCHANGED <<sensor_files, next_id>>
              ELSE /\ sensor_files' =
                         sensor_files \cup {NewSensorFile(file_hash, task.filename)}
                   /\ next_id' = next_id + 1
           /\ task' = [task EXCEPT !.state = "success", !.w = w]
           /\ ret' = [NoRet EXCEPT !.op = "import", !.hash = file_hash,
                                   !.data = task.data,
                                   !.frame_index = complete_frame_index,
                                   !.written = w.out, !.io = Len(w.out),
                                   !.existed = exists,
                                   !.blob_before = BlobAt(raw_dir, final_path)]
    /\ UNCHANGED <<content, verify_tasks, prev, batchVars, parseVars>>

\* ------------------------------------------------------------------ Spec
\* ------------------------------------------------------------------ line parser
\* A text line, as far as parse_lines tells lines apart:
\*   kind "sensor"       starts with "202" and passes the checks of lines
\*                       124-134; ch is the channel of its data type
\*                       ("unknown": no channel), ts its unix timestamp,
\*                       short = TRUE when the payload is cut off;
\*   kind "not_sensor"   starts with "202" and fails those checks;
\*   kind "label"        a JSON object with "label" and "timestamp";
\*   kind "json_other"   looks like an object, is not valid JSON or lacks
\*                       the keys;
\*   kind "json_raises"  looks like an object and makes json.loads raise
\*                       something that is not a JSONDecodeError.
Channels == {"acc", "ppg_green", "base_info"}
MergeChannels == {"acc", "ppg_green"}
DataTypes == Channels \cup {"unknown"}

\* serial_number: Optional[int] = None
NoSerial == -1

\* parser_cls.from_bytes: a record of the line; struct.error on a short
\* payload is swallowed and the fields not yet read keep their defaults.
FromBytes(line) ==
    IF line.short
    THEN [unix_timestamp |-> line.ts, serial_number |-> NoSerial, arr_size |-> 0,
          data |-> <<>>]
    ELSE [unix_timestamp |-> line.ts, serial_number |-> line.serial, arr_size |-> 1,
          data |-> <<line.ts>>]

NewParse ==
    [collectors |-> [c \in Channels |-> <<>>], labels |-> <<>>,
     data_types |-> [d \in DataTypes |-> 0], last_unix_timestamp |-> 0,
     pending |-> [c \in MergeChannels |-> None], raised |-> FALSE]

\* Lines 168-184: keep the item, or join it to the pending item of its
\* channel.
Collect(st, ch, parsed_item, merge_consecutive) ==
    IF ch \notin MergeChannels
    THEN [st EXCEPT !.collectors[ch] = Append(@, parsed_item)]
    ELSE LET prv == st.pending[ch]
         IN  IF merge_consecutive /\ prv # None
                /\ prv.serial_number = parsed_item.serial_number
             THEN [st EXCEPT !.pending[ch] =
                       [prv EXCEPT !.data = @ \o parsed_item.data,
                                   !.arr_size = @ + parsed_item.arr_size]]
             ELSE IF merge_consecutive
             THEN [st EXCEPT !.collectors[ch] =
                                 IF prv # None THEN Append(@, prv) ELSE @,
                             !.pending[ch] = parsed_item]
             ELSE [st EXCEPT !.collectors[ch] = Append(@, parsed_item)]

\* One pass of `for line in lines` (lines 118-193).
ParseLine(st, line, merge_consecutive) ==
    IF line.kind = "sensor"
    THEN LET st1 == [st EXCEPT !.last_unix_timestamp = line.ts,
                               !.data_types[line.ch] = @ + 1]
         IN  IF line.ch = "unknown" THEN st1
             ELSE Collect(st1, line.ch, FromBytes(line), merge_consecutive)
    ELSE IF line.kind = "label"
    THEN [st EXCEPT !.labels =
              Append(@, [label |-> line.ts, unix_timestamp |-> st.last_unix_timestamp])]
    ELSE IF line.kind = "json_raises"
    THEN [st EXCEPT !.raised = TRUE]
    ELSE st

RECURSIVE ParseLoop(_, _, _)
ParseLoop(st, lines, merge_consecutive) ==
    IF lines = <<>> \/ st.raised THEN st
    ELSE ParseLoop(ParseLine(st, Head(lines), merge_consecutive), Tail(lines),
                   merge_consecutive)

\* Lines 195-199: `flush pending`.
FlushPending(st) ==
    [st EXCEPT !.collectors =
        [c \in Channels |->
            IF c \in MergeChannels /\ st.pending[c] # None
            THEN Append(st.collectors[c], st.pending[c])
            ELSE st.collectors[c]]]

\* ParserWorker.parse_lines(lines, is_ring, merge_consecutive)
ParseLines(lines, merge_consecutive) ==
    LET st == ParseLoop(NewParse, lines, merge_consecutive)
        fl == IF merge_consecutive THEN FlushPending(st) ELSE st
    IN  [raised |-> st.raised,
         collectors |-> IF st.raised THEN NewParse.collectors ELSE fl.collectors,
         labels |-> IF st.raised THEN <<>> ELSE fl.labels,
         data_types |-> IF st.raised THEN NewParse.data_types ELSE fl.data_types]

\* Mutant: the declared sample count of a run is that of its first record.
RECURSIVE MergeRun_FirstSize(_, _, _)
MergeRun_FirstSize(merged, pending, items) ==
    IF items = <<>> THEN Append(merged, pending)
    ELSE LET item == Head(items)
         IN  IF pending.serial_number = item.serial_number
             THEN MergeRun_FirstSize(merged, [pending EXCEPT !.data = @ \o item.data],
                                     Tail(items))
             ELSE MergeRun_FirstSize(Append(merged, pending), item, Tail(items))

\* The loop of merge_consecutive_items (lines 225-233).
RECURSIVE MergeRun(_, _, _)
MergeRun(merged, pending, items) ==
    IF items = <<>> THEN Append(merged, pending)
    ELSE LET item == Head(items)
         IN  IF pending.serial_number = item.serial_number
             THEN MergeRun(merged,
                           [pending EXCEPT !.data = @ \o item.data,
                                           !.arr_size = @ + item.arr_size],
                           Tail(items))
             ELSE MergeRun(Append(merged, pending), item, Tail(items))

\* ParserWorker.merge_consecutive_items(raw_items, data_field)
MergeConsecutiveItems(raw_items) ==
    IF raw_items = <<>> THEN <<>>
    ELSE MergeRun(<<>>, Head(raw_items), Tail(raw_items))

RECURSIVE ExtendAll(_, _)
ExtendAll(partial_results, key) ==
    IF partial_results = <<>> THEN <<>>
    ELSE Head(partial_results)[key] \o ExtendAll(Tail(partial_results), key)

RECURSIVE ExtendCollectors(_, _)
ExtendCollectors(partial_results, ch) ==
    IF partial_results = <<>> THEN <<>>
    ELSE Head(partial_results).collectors[ch]
             \o ExtendCollectors(Tail(partial_results), ch)

RECURSIVE SumTypes(_, _)
SumTypes(partial_results, dt) ==
    IF partial_results = <<>> THEN 0
    ELSE Head(partial_results).data_types[dt] + SumTypes(Tail(partial_results), dt)

\* ParserWorker.merge_partial_results(partial_results)
MergePartialResults(partial_results) ==
    [collectors |->
        [c \in Channels |->
            IF c \in MergeChannels
            THEN MergeConsecutiveItems(ExtendCollectors(partial_results, c))
            ELSE ExtendCollectors(partial_results, c)],
     labels |-> ExtendAll(partial_results, "labels"),
     data_types |-> [d \in DataTypes |-> SumTypes(partial_results, d)]]

\* ParserWorker.build_dataframes: one table per channel that has rows.
BuildDataframes(parsed_lists) ==
    [tables |-> [c \in {k \in Channels : parsed_lists.collectors[k] # <<>>} |->
                    parsed_lists.collectors[c]],
     labels |-> parsed_lists.labels,
     data_types |-> parsed_lists.data_types]

\* The file as text lines; a frame of the index covers whole lines, and
\* offsets and lengths count lines. The lines of the frames of one batch,
\* as _worker_parse_batch reads and joins them.
RECURSIVE LinesOfFrames(_, _)
LinesOfFrames(file_lines, fs) ==
    IF fs = <<>> THEN <<>>
    ELSE SubSeq(file_lines, Head(fs).cs + 1, Head(fs).cs + Head(fs).cl)
             \o LinesOfFrames(file_lines, Tail(fs))

\* str.splitlines() on the joined text of a batch. The lines of the file
\* are its newline-separated lines, which is how io.TextIOWrapper cuts the
\* single stream; splitlines also cuts at a form feed. A sensor line that
\* carries the field ff has a form feed inside its first (timestamp) field:
\* its first piece starts with "202" and has fewer than 11 fields, its
\* second piece starts with neither "202" nor "{".
RECURSIVE StrSplitlines(_)
StrSplitlines(lines) ==
    IF lines = <<>> THEN <<>>
    ELSE (IF "ff" \in DOMAIN Head(lines)
          THEN <<[Head(lines) EXCEPT !.kind = "not_sensor"],
                 [Head(lines) EXCEPT !.kind = "other"]>>
          ELSE <<Head(lines)>>)
             \o StrSplitlines(Tail(lines))

\* _worker_parse_batch: parse_lines(..., merge_consecutive=False) on one batch.
WorkerParseBatch(file_lines, batch) ==
    ParseLines(StrSplitlines(LinesOfFrames(file_lines, batch.frames)), FALSE)

\* decompress_and_parse_single: parse_lines(text_stream, merge_consecutive=True)
DecompressAndParseSingle(file_lines) ==
    LET p == ParseLines(file_lines, TRUE)
    IN  IF p.raised THEN [raised |-> TRUE]
        ELSE [raised |-> FALSE, result |-> BuildDataframes(p)]

\* decompress_and_parse_parallel, whatever the order the workers finish in:
\* the partial results in batch order, merged and made into tables.
DecompressAndParseParallel(file_lines, fs, min_frames) ==
    LET bs == BuildBatches(NormalizeFrames(fs), min_frames)
        partials == [k \in 1..Len(bs) |-> WorkerParseBatch(file_lines, bs[k])]
    IN  IF \E k \in 1..Len(bs) : partials[k].raised THEN [raised |-> TRUE]
        ELSE [raised |-> FALSE,
              result |-> BuildDataframes(MergePartialResults(partials))]

\* No ParseResult row for the file. The fields other than status hold the
\* defaults of the ParseResult model, which a created row starts from;
\* writes lists the statuses committed by the task at hand.
NoRow ==
    [status |-> "none", device_type_used |-> "", progress |-> None,
     duration |-> "--", packets |-> "[]", error_message |-> None,
     content_meta |-> None, processed_dir |-> None, writes |-> <<>>]

\* processed/{hash}/ does not exist: no table file, no manifest.json.
NoOutput == [tables |-> [c \in {} |-> None], manifest |-> None]

\* No parse task: nothing submitted, nothing published, no ParseResult row.
\* row_before and dir_before keep the row and the output directory as the
\* task found them.
IdleJob ==
    [service |-> "legacy", pc |-> "idle", raw_exists |-> TRUE, mode |-> "none",
     collected |-> <<>>, completed_batches |-> 0, last_reported |-> 0,
     partials |-> None, result |-> None, tables |-> None, manifest |-> FALSE,
     error |-> None, device_type |-> "Watch", output_dir |-> NoOutput,
     row_before |-> NoRow, dir_before |-> NoOutput]

NoProgressCall == [completed_batches |-> 0, total_batches |-> 0, result |-> None]

NoStartup == [started |-> FALSE, before |-> <<>>, rows |-> <<>>]

NoSubscribeInit ==
    /\ manager = [state |-> None, events |-> [e \in {} |-> FALSE]]
    /\ subscriber = <<>>
    /\ to_publish = <<>>

NoDeleteInit ==
    /\ requests = None
    /\ processed_dirs = {}
    /\ cancel_event = FALSE
    /\ download = None
    /\ runs = <<>>
    /\ packets_call = None

NoAuxInit ==
    /\ progress_call = NoProgressCall
    /\ parse_results = NoStartup
    /\ NoSubscribeInit
    /\ NoDeleteInit

NoJobInit ==
    /\ NoAuxInit
    /\ job = IdleJob
    /\ futures = <<>>
    /\ ordered_results = [b \in {} |-> None]
    /\ published = <<>>
    /\ parse_result = NoRow

NoParseInit ==
    /\ validation = [frame_index |-> None, compressed_size |-> NoSize, result |-> None]
    /\ text_lines = <<>>
    /\ parsed = [single |-> None, parallel |-> None]
    /\ NoJobInit

NoBatchInit ==
    /\ frames = <<>>
    /\ min_batch_frames = 1
    /\ batches = [done |-> FALSE, list |-> <<>>]

CatalogInputs == {d \in Inputs : Len(d) <= CatalogLen}

Init ==
    /\ content \in CatalogInputs
    /\ raw_dir = EmptyDir
    /\ physical_files = [h \in {} |-> None]
    /\ sensor_files = {}
    /\ next_id = 1
    /\ verify_tasks = {}
    /\ task = IdleTask
    /\ ret = NoRet
    /\ prev = NoRet
    /\ NoBatchInit
    /\ NoParseInit

Next ==
    \/ Upload
    \/ VerifyUploadTask
    \/ FileServiceVerifyUploadTask
    \/ Import
    \/ DownloadBegin
    \/ DownloadChunk
    \/ DownloadError
    \/ DownloadFinish

Spec == Init /\ [][Next]_vars


\* ------------------------------------------------------------------ SpecFrames
\* The frame store on its own: verify_and_rebuild_index applied (again and
\* again) to the blob of `content`, however a client framed it, and the
\* device import writing the same bytes.
RebuildCall ==
    LET md5 == Md5Hex(content)
        path == RawPath(md5)
        r == VerifyAndRebuildIndex(raw_dir, path, md5)
    IN  /\ raw_dir' = r.dir
        /\ prev' = ret
        /\ ret' = VerifyRet(path, md5, r)
        /\ UNCHANGED <<content, physical_files, sensor_files, next_id,
                       verify_tasks, task, batchVars, parseVars>>

InitFrames ==
    /\ content \in Inputs
    /\ raw_dir \in {EmptyDir} \cup
                   {Put(EmptyDir, RawPath(Md5Hex(content)), s) :
                        s \in ClientStreams(content)
                              \cup {Truncated(c) : c \in ClientStreams(content)}
                              \cup {Compress(Variant(content))}}
    /\ physical_files = [h \in {} |-> None]
    /\ sensor_files = {}
    /\ next_id = 1
    /\ verify_tasks = {}
    /\ task = IdleTask
    /\ ret = NoRet
    /\ prev = NoRet
    /\ NoBatchInit
    /\ NoParseInit

ImportContent == StartDownload("a.rawdata", content)

NextFrames ==
    \/ RebuildCall
    \/ ImportContent
    \/ DownloadBegin
    \/ DownloadChunk
    \/ DownloadError
    \/ DownloadFinish

SpecFrames == InitFrames /\ [][NextFrames]_vars


\* ------------------------------------------------------------------ SpecBatch
\* _build_batches on every contiguous frame list of at most MaxFrames
\* frames and every min_batch_frames in 1..MaxMinBatch.
FrameShapes == {[cl |-> c, nl |-> b] : c \in {1, 2}, b \in BOOLEAN}

RECURSIVE ShapeLists(_)
ShapeLists(n) ==
    IF n = 0 THEN {<<>>}
    ELSE LET S == ShapeLists(n - 1)
         IN  S \cup {Append(s, x) : s \in {t \in S : Len(t) = n - 1}, x \in FrameShapes}

\* The frame list with these lengths and flags, laid out from offset 0.
RECURSIVE LayOut(_, _)
LayOut(shapes, cs) ==
    IF shapes = <<>> THEN <<>>
    ELSE <<[cs |-> cs, cl |-> Head(shapes).cl, dl |-> Head(shapes).cl + 1,
            nl |-> Head(shapes).nl]>> \o LayOut(Tail(shapes), cs + Head(shapes).cl)

InitBatch ==
    /\ frames \in {LayOut(s, 0) : s \in ShapeLists(MaxFrames)}
    /\ min_batch_frames \in 1..MaxMinBatch
    /\ batches = [done |-> FALSE, list |-> <<>>]
    /\ content = <<>>
    /\ raw_dir = EmptyDir
    /\ physical_files = [h \in {} |-> None]
    /\ sensor_files = {}
    /\ next_id = 1
    /\ verify_tasks = {}
    /\ task = IdleTask
    /\ ret = NoRet
    /\ prev = NoRet
    /\ NoParseInit

PlanBatches ==
    /\ ~batches.done
    /\ batches' = [done |-> TRUE, list |-> BuildBatches(frames, min_batch_frames)]
    /\ UNCHANGED <<frames, min_batch_frames, storeVars, parseVars>>

NextBatch == PlanBatches

SpecBatch == InitBatch /\ [][NextBatch]_vars


\* ------------------------------------------------------------------ SpecValidate
\* validate_frame_index on stored indexes of every shape: missing, not a
\* dict, without a frame list, and frame lists of at most MaxIndexFrames
\* frames whose keys may be absent, negative, gapped or overlapping.
MaxIndexFrames == 2
MaxOffset == 2

FrameValues ==
    {NotADict}
    \cup [cs : -1..MaxOffset, cl : -1..MaxOffset, dl : {-1, 1}]
    \cup [cl : {1}, dl : {1}] \cup [cs : {0}, dl : {1}] \cup [cs : {0}, cl : {1}]

RECURSIVE FrameLists(_)
FrameLists(n) ==
    IF n = 0 THEN {<<>>}
    ELSE LET S == FrameLists(n - 1)
         IN  S \cup {Append(l, f) : l \in {t \in S : Len(t) = n - 1}, f \in FrameValues}

IndexValues ==
    {None, NotADict, [version |-> 2]}
    \cup {[version |-> 2, frames |-> l] : l \in FrameLists(MaxIndexFrames)}

SizeValues == {NoSize} \cup 0..(2 * MaxOffset)

InitValidate ==
    /\ validation \in [frame_index : IndexValues, compressed_size : SizeValues,
                        result : {None}]
    /\ NoJobInit
    /\ text_lines = <<>>
    /\ parsed = [single |-> None, parallel |-> None]
    /\ content = <<>>
    /\ raw_dir = EmptyDir
    /\ physical_files = [h \in {} |-> None]
    /\ sensor_files = {}
    /\ next_id = 1
    /\ verify_tasks = {}
    /\ task = IdleTask
    /\ ret = NoRet
    /\ prev = NoRet
    /\ NoBatchInit

ValidateCall ==
    /\ validation.result = None
    /\ validation' = [validation EXCEPT !.result =
                          ValidateFrameIndex(validation.frame_index,
                                             validation.compressed_size)]
    /\ UNCHANGED <<storeVars, batchVars, text_lines, parsed, jobVars>>

NextValidate == ValidateCall

SpecValidate == InitValidate /\ [][NextValidate]_vars


\* ------------------------------------------------------------------ SpecLines
\* Both decoders on every file of at most MaxLines lines, framed in every
\* way at line ends. The unix timestamp of a line is its position in the
\* file, so every sensor line has a time of its own.
MaxLines == 3
MaxParseBatch == 2

LineShapes ==
    [kind : {"sensor"}, ch : {"acc"}, serial : {5, 7}, short : {FALSE}]
    \cup [kind : {"sensor"}, ch : {"acc"}, serial : {NoSerial}, short : {TRUE}]
    \cup [kind : {"sensor"}, ch : {"ppg_green"}, serial : {5}, short : {FALSE}]
    \cup [kind : {"sensor"}, ch : {"base_info", "unknown"}, serial : {NoSerial},
          short : {FALSE}]
    \cup [kind : {"not_sensor", "label", "json_other", "json_raises"},
          ch : {"unknown"}, serial : {NoSerial}, short : {FALSE}]

RECURSIVE ShapeSeqs(_)
ShapeSeqs(n) ==
    IF n = 0 THEN {<<>>}
    ELSE LET S == ShapeSeqs(n - 1)
         IN  S \cup {Append(l, x) : l \in {t \in S : Len(t) = n - 1}, x \in LineShapes}

Timed(shapes) ==
    [i \in 1..Len(shapes) |->
        [kind |-> shapes[i].kind, ch |-> shapes[i].ch, serial |-> shapes[i].serial,
         short |-> shapes[i].short, ts |-> i]]

\* The frames that end after the lines in `ends` (and after the last line).
RECURSIVE FramesAt(_, _, _)
FramesAt(n, ends, start) ==
    IF start >= n THEN <<>>
    ELSE LET stop == IF \E e \in ends : e > start
                     THEN CHOOSE e \in ends : e > start /\ \A o \in ends : o > start => e <= o
                     ELSE n
         IN  <<[cs |-> start, cl |-> stop - start, dl |-> stop - start, ds |-> start,
                nl |-> TRUE]>> \o FramesAt(n, ends, stop)

InitLines ==
    /\ text_lines \in {Timed(sh) : sh \in ShapeSeqs(MaxLines)}
    /\ frames \in {FramesAt(Len(text_lines), ends, 0) : ends \in SUBSET (1..(Len(text_lines) - 1))}
    /\ min_batch_frames \in 1..MaxParseBatch
    /\ batches = [done |-> FALSE, list |-> <<>>]
    /\ parsed = [single |-> None, parallel |-> None]
    /\ validation = [frame_index |-> None, compressed_size |-> NoSize, result |-> None]
    /\ NoJobInit
    /\ content = <<>>
    /\ raw_dir = EmptyDir
    /\ physical_files = [h \in {} |-> None]
    /\ sensor_files = {}
    /\ next_id = 1
    /\ verify_tasks = {}
    /\ task = IdleTask
    /\ ret = NoRet
    /\ prev = NoRet

ParseSingle ==
    /\ parsed.single = None
    /\ parsed' = [parsed EXCEPT !.single = DecompressAndParseSingle(text_lines)]
    /\ UNCHANGED <<storeVars, batchVars, validation, text_lines, jobVars>>

ParseParallel ==
    /\ parsed.parallel = None
    /\ frames # <<>>
    /\ parsed' = [parsed EXCEPT !.parallel =
                     DecompressAndParseParallel(text_lines, frames, min_batch_frames)]
    /\ UNCHANGED <<storeVars, batchVars, validation, text_lines, jobVars>>

NextLines == ParseSingle \/ ParseParallel

SpecLines == InitLines /\ [][NextLines]_vars


\* ------------------------------------------------------------------ SpecWire
\* Both decoders on files of accelerometer lines of every wire variant: the
\* v2 variant (243 fields, a serial number in the header), the base variant
\* (`rawdata_v2 = len(data) == 243` is false, no header is read), a line
\* whose payload ends inside the header, and a v2 line with a form feed
\* inside its timestamp field.
MaxWireLines == 3

V2Line == [kind |-> "sensor", ch |-> "acc", serial |-> 5, short |-> FALSE]
BaseLine == [kind |-> "sensor", ch |-> "acc", serial |-> NoSerial, short |-> FALSE]
ShortLine == [kind |-> "sensor", ch |-> "acc", serial |-> NoSerial, short |-> TRUE]
FormFeedLine ==
    [kind |-> "sensor", ch |-> "acc", serial |-> 5, short |-> FALSE, ff |-> TRUE]

WireShapes == {V2Line, BaseLine, ShortLine, FormFeedLine}

RECURSIVE WireSeqs(_)
WireSeqs(n) ==
    IF n = 0 THEN {<<>>}
    ELSE LET S == WireSeqs(n - 1)
         IN  S \cup {Append(l, x) : l \in {t \in S : Len(t) = n - 1}, x \in WireShapes}

\* The unix timestamp of a line is its position in the file.
Stamped(shapes) ==
    [i \in 1..Len(shapes) |->
        [f \in DOMAIN shapes[i] \cup {"ts"} |->
            IF f = "ts" THEN i ELSE shapes[i][f]]]

InitWire ==
    /\ text_lines \in {Stamped(sh) : sh \in WireSeqs(MaxWireLines)}
    /\ frames \in {FramesAt(Len(text_lines), ends, 0) :
                       ends \in SUBSET (1..(Len(text_lines) - 1))}
    /\ min_batch_frames \in 1..MaxParseBatch
    /\ batches = [done |-> FALSE, list |-> <<>>]
    /\ parsed = [single |-> None, parallel |-> None]
    /\ validation = [frame_index |-> None, compressed_size |-> NoSize, result |-> None]
    /\ NoJobInit
    /\ content = <<>>
    /\ raw_dir = EmptyDir
    /\ physical_files = [h \in {} |-> None]
    /\ sensor_files = {}
    /\ next_id = 1
    /\ verify_tasks = {}
    /\ task = IdleTask
    /\ ret = NoRet
    /\ prev = NoRet

SpecWire == InitWire /\ [][NextLines]_vars


\* ------------------------------------------------------------------ SpecTask
\* The background parse task from its call to its return: the legacy
\* ParserService (validation, executor, ordered merge, tables, manifest) and
\* ParserServiceV2 (status bookkeeping around a placeholder parse_file).
MaxTaskLines == 3
MAX_PROCESS_WORKERS == 8
CpuCount == 2

Max(a, b) == IF a > b THEN a ELSE b

\* Python floats are IEEE-754 doubles: 53 significant bits, every operation
\* rounded to nearest, ties to even. A positive float is [bits, exp]: the
\* binary number bits (most significant first, leading 1) times 2^exp.
\* The significant bits of a Python float (IEEE 754 binary64).
MantissaBits == 53

\* acc and the next n bits of r / t after the binary point (0 <= r < t),
\* and the remainder left after them.
RECURSIVE DivBits(_, _, _, _)
DivBits(r, t, n, acc) ==
    IF n = 0 THEN [bits |-> acc, rem |-> r]
    ELSE IF 2 * r >= t THEN DivBits(2 * r - t, t, n - 1, Append(acc, 1))
    ELSE DivBits(2 * r, t, n - 1, Append(acc, 0))

\* The zeros after the binary point of r / t before its first 1 (0 < r < t).
RECURSIVE LeadingZeros(_, _)
LeadingZeros(r, t) == IF 2 * r >= t THEN 0 ELSE 1 + LeadingZeros(2 * r, t)

RECURSIVE Pow2(_)
Pow2(n) == IF n = 0 THEN 1 ELSE 2 * Pow2(n - 1)

RECURSIVE Incr(_)
Incr(bits) ==
    IF bits = <<>> THEN <<1>>
    ELSE IF bits[Len(bits)] = 0
    THEN SubSeq(bits, 1, Len(bits) - 1) \o <<1>>
    ELSE Incr(SubSeq(bits, 1, Len(bits) - 1)) \o <<0>>

\* bits (with sticky telling of nonzero bits beyond them) rounded to p
\* significant bits, to nearest and ties to even.
RoundBits(bits, sticky, p) ==
    IF Len(bits) <= p THEN bits
    ELSE LET kept == SubSeq(bits, 1, p)
             more == sticky \/ \E i \in (p + 2)..Len(bits) : bits[i] = 1
         IN  IF bits[p + 1] = 1 /\ (more \/ kept[p] = 1) THEN Incr(kept) ELSE kept

RECURSIVE NatBits(_)
NatBits(n) == IF n = 0 THEN <<>> ELSE NatBits(n \div 2) \o <<n % 2>>

RECURSIVE BitsNat(_)
BitsNat(bits) ==
    IF bits = <<>> THEN 0
    ELSE 2 * BitsNat(SubSeq(bits, 1, Len(bits) - 1)) + bits[Len(bits)]

\* k times the first i bits of bits, plus carry, put before acc.
RECURSIVE MulBitsFrom(_, _, _, _, _)
MulBitsFrom(bits, i, k, carry, acc) ==
    IF i = 0 THEN NatBits(carry) \o acc
    ELSE IF (k * bits[i] + carry) % 2 = 1
    THEN MulBitsFrom(bits, i - 1, k, (k * bits[i] + carry) \div 2, <<1>> \o acc)
    ELSE MulBitsFrom(bits, i - 1, k, (k * bits[i] + carry) \div 2, <<0>> \o acc)

\* k * bits + carry, exactly.
MulBits(bits, k, carry) == MulBitsFrom(bits, Len(bits), k, carry, <<>>)

\* The float c / t for integers 0 < c < t.
FloatDiv(c, t) ==
    LET z == LeadingZeros(c, t)
        d == DivBits(c * Pow2(z), t, MantissaBits + 1, <<>>)
    IN  [bits |-> RoundBits(d.bits, d.rem # 0, MantissaBits),
         exp |-> 0 - (z + MantissaBits)]

\* The float k * x for an integer k >= 1.
FloatMul(k, x) ==
    LET product == MulBits(x.bits, k, 0)
    IN  [bits |-> RoundBits(product, FALSE, MantissaBits),
         exp |-> x.exp + Max(0, Len(product) - MantissaBits)]

\* int(x): the float cut at the binary point.
FloatInt(x) ==
    IF x.exp >= 0 THEN BitsNat(x.bits) * Pow2(x.exp)
    ELSE IF Len(x.bits) <= 0 - x.exp THEN 0
    ELSE BitsNat(SubSeq(x.bits, 1, Len(x.bits) + x.exp))

\* map_parallel_progress: `ratio = completed / total_batches`, then
\* `min_progress + int((max_progress - min_progress) * ratio)`, in floats;
\* the ratios 0 / t and t / t are the floats 0.0 and 1.0, whose products are
\* exact.
MapParallelProgress(completed_batches, total_batches, min_progress, max_progress) ==
    IF total_batches <= 0 THEN min_progress
    ELSE LET completed == Max(0, Min(completed_batches, total_batches))
         IN  IF max_progress <= min_progress THEN min_progress
             ELSE IF completed = 0 THEN min_progress
             ELSE IF completed = total_batches THEN max_progress
             ELSE min_progress
                    + FloatInt(FloatMul(max_progress - min_progress,
                                        FloatDiv(completed, total_batches)))

\* ParseProgressManager.update: the state every subscriber is shown next.
Update(pub, progress, status) ==
    Append(pub, [progress |-> progress, status |-> status])

\* Mutant: the callback publishes every value it is given.
ProgressCb_NoDrop(st, progress) ==
    [last_reported |-> progress,
     published |-> Update(st.published, progress, "processing")]

\* The closure of _create_progress_cb: st = [last_reported, published].
ProgressCb(st, progress) ==
    IF progress <= st.last_reported THEN st
    ELSE [last_reported |-> progress,
          published |-> Update(st.published, progress, "processing")]

\* Mutant: the status of an existing row is left as it is.
CreateOrUpdate_KeepStatus(row, data) ==
    [k \in DOMAIN row |->
        IF k = "writes" THEN Append(row.writes, data.status)
        ELSE IF k = "status" /\ row.status # "none" THEN row.status
        ELSE IF k \in DOMAIN data THEN data[k]
        ELSE row[k]]

\* Mutant: a commit puts every field it does not name back to its default.
CreateOrUpdate_Replace(row, data) ==
    [k \in DOMAIN row |->
        IF k = "writes" THEN Append(row.writes, data.status)
        ELSE IF k \in DOMAIN data THEN data[k]
        ELSE NoRow[k]]

\* parse_result_crud.create_or_update: the row after the commit. An
\* existing row gets the fields of data (`setattr(existing, k, v)`), a new
\* row is made of data over the defaults; writes is the list of statuses
\* this run has committed.
CreateOrUpdate(row, data) ==
    [k \in DOMAIN row |->
        IF k = "writes" THEN Append(row.writes, data.status)
        ELSE IF k \in DOMAIN data THEN data[k]
        ELSE row[k]]

ParseGenerated == {"manifest", "parse_summary", "duration_seconds", "raw_file_size"}

\* Mutant: the derived fields are carried along.
StripParseGeneratedMeta_Keep(content_meta) ==
    IF content_meta = None THEN [k \in {} |-> None] ELSE content_meta

\* _strip_parse_generated_meta
StripParseGeneratedMeta(content_meta) ==
    IF content_meta = None THEN [k \in {} |-> None]
    ELSE [k \in DOMAIN content_meta \ ParseGenerated |-> content_meta[k]]

\* dict.get: the value of a key, None when the dict has no such key.
Get(d, key) == IF key \in DOMAIN d THEN d[key] ELSE None

\* merged_meta of parse_file_task: the business fields of the earlier
\* content_meta and what this parse derived.
MergedMeta(content_meta, manifest) ==
    LET cleaned == StripParseGeneratedMeta(content_meta)
    IN  [k \in DOMAIN cleaned \cup ParseGenerated |->
            IF k = "manifest" THEN manifest
            ELSE IF k = "parse_summary" THEN [keys |-> Get(manifest, "keys")]
            ELSE IF k = "duration_seconds" THEN Get(manifest, "duration_seconds")
            ELSE IF k = "raw_file_size" THEN Get(manifest, "raw_file_size")
            ELSE cleaned[k]]

\* The data of the three commits of a parse task.
ProcessingData(device_type) ==
    [status |-> "processing", device_type_used |-> device_type,
     progress |-> None, error_message |-> None]

ProcessedData(content_meta, manifest) ==
    [status |-> "processed", progress |-> None,
     content_meta |-> MergedMeta(content_meta, manifest),
     processed_dir |-> [path |-> "processed/hash"],
     duration |-> "duration", packets |-> "packets", error_message |-> None]

ErrorData(exc) ==
    [status |-> "error", progress |-> None, error_message |-> exc]

\* _write_manifest: what manifest.json says of the parse.
Manifest(result) ==
    [keys |-> DOMAIN result.tables, labels |-> result.labels,
     data_types |-> result.data_types]

\* The result of ParserServiceV2.parse_file: no table, no label.
EmptyResult ==
    [tables |-> [c \in {} |-> None], labels |-> <<>>,
     data_types |-> [d \in {} |-> 0]]

\* _save_to_parquet: one file per table that has rows, written over the
\* file of that name; other files of the directory stay.
SaveTables(old, new) ==
    [c \in DOMAIN old \cup DOMAIN new |-> IF c \in DOMAIN new THEN new[c] ELSE old[c]]

\* Mutant: every file goes to the executor.
ChooseMode_Parallel(frame_index_valid) == "parallel"

\* `if frame_index_valid: ... else: ...` of parse_file
ChooseMode(frame_index_valid) ==
    IF frame_index_valid THEN "parallel" ELSE "single"

\* Mutant: a result is filed under the order of its arrival.
ResultKey_Arrival(worker_output, completed_batches) == completed_batches

\* `ordered_results[worker_output["batch_id"]] = worker_output["result"]`
ResultKey(worker_output, completed_batches) == worker_output.batch_id

\* Mutant: nothing is cancelled.
CancelPending_None(fs) == fs

\* `for pending in futures: pending.cancel()`: a future that has not
\* started is cancelled, a running or finished one is left alone.
CancelPending(fs) ==
    [i \in 1..Len(fs) |->
        IF fs[i].state = "pending" THEN [fs[i] EXCEPT !.state = "cancelled"]
        ELSE fs[i]]

WorkerCount(total_batches) ==
    Min(MAX_PROCESS_WORKERS, Min(Max(1, CpuCount), total_batches))

Raise(j, exc) == [j EXCEPT !.pc = "raised", !.error = exc]

taskFixed == <<storeVars, frames, min_batch_frames, text_lines, parsed, auxVars>>

TaskShapes ==
    [kind : {"sensor"}, ch : {"acc"}, serial : {5}, short : {FALSE}]
    \cup [kind : {"label", "json_raises"}, ch : {"unknown"}, serial : {NoSerial},
          short : {FALSE}]

RECURSIVE TaskShapeSeqs(_)
TaskShapeSeqs(n) ==
    IF n = 0 THEN {<<>>}
    ELSE LET S == TaskShapeSeqs(n - 1)
         IN  S \cup {Append(l, x) : l \in {t \in S : Len(t) = n - 1}, x \in TaskShapes}

\* What the PhysicalFile row may hold for a file of `size` units framed as
\* fs: no index, the index of the file, an index that lost its first frame,
\* and the index of the file with a size one short.
PhysicalRows(fs, size) ==
    {[frame_index |-> None, compressed_size |-> size, result |-> None],
     [frame_index |-> [version |-> 2, frames |-> fs], compressed_size |-> size,
      result |-> None],
     [frame_index |-> [version |-> 2, frames |-> SubSeq(fs, 2, Len(fs))],
      compressed_size |-> size, result |-> None],
     [frame_index |-> [version |-> 2, frames |-> fs], compressed_size |-> size - 1,
      result |-> None]}

\* The row an earlier run left: a failed one, and a successful one with its
\* business fields and what it derived.
OldRow ==
    [NoRow EXCEPT !.status = "error", !.error_message = [type |-> "earlier run"],
                  !.progress = [value |-> 50]]

OldTable == <<[data |-> <<9>>, unix_timestamp |-> 9, serial_number |-> 9,
               arr_size |-> 1]>>

OldOutput ==
    [tables |-> [c \in {"ppg_green"} |-> OldTable],
     manifest |-> [keys |-> {"ppg_green"}, labels |-> <<>>,
                   data_types |-> [d \in DataTypes |-> 0]]]

ProcessedRow ==
    [NoRow EXCEPT !.status = "processed", !.device_type_used = "Ring",
                  !.duration = "old duration", !.packets = "old packets",
                  !.content_meta = [business |-> "meta",
                                    manifest |-> OldOutput.manifest],
                  !.processed_dir = [path |-> "processed/hash"]]

InitTask ==
    /\ NoAuxInit
    /\ parse_result \in {NoRow, OldRow, ProcessedRow}
    /\ job \in {[IdleJob EXCEPT !.service = s, !.raw_exists = r,
                                 !.row_before = parse_result,
                                 !.output_dir = IF parse_result = ProcessedRow
                                                THEN OldOutput ELSE NoOutput,
                                 !.dir_before = IF parse_result = ProcessedRow
                                                THEN OldOutput ELSE NoOutput] :
                   s \in {"legacy", "v2"}, r \in BOOLEAN}
    /\ text_lines \in {Timed(sh) : sh \in TaskShapeSeqs(MaxTaskLines)}
    /\ job.service = "v2" => text_lines = <<>>
    /\ frames \in {FramesAt(Len(text_lines), ends, 0) :
                      ends \in SUBSET (1..(Len(text_lines) - 1))}
    /\ min_batch_frames \in 1..MaxParseBatch
    /\ validation \in PhysicalRows(frames, Len(text_lines))
    /\ batches = [done |-> FALSE, list |-> <<>>]
    /\ parsed = [single |-> None, parallel |-> None]
    /\ futures = <<>>
    /\ ordered_results = [b \in {} |-> None]
    /\ published = <<>>
    /\ content = <<>>
    /\ raw_dir = EmptyDir
    /\ physical_files = [h \in {} |-> None]
    /\ sensor_files = {}
    /\ next_id = 1
    /\ verify_tasks = {}
    /\ task = IdleTask
    /\ ret = NoRet
    /\ prev = NoRet

\* ParserService.parse_file_task up to the call of parse_file: the index
\* and the size are read from the PhysicalFile row, progress 0 is shown;
\* nothing is written to the database.
ParseFileTask ==
    /\ job.service = "legacy" /\ job.pc = "idle"
    /\ job' = [job EXCEPT !.pc = "parse_file"]
    /\ published' = Update(published, 0, "processing")
    /\ UNCHANGED <<taskFixed, validation, batches, futures, ordered_results,
                   parse_result>>

\* ParserServiceV2.parse_file_task up to the call of parse_file: status
\* processing is committed, then progress 0 is shown.
ParseFileTaskV2 ==
    /\ job.service = "v2" /\ job.pc = "idle"
    /\ parse_result' = CreateOrUpdate(parse_result, ProcessingData(job.device_type))
    /\ job' = [job EXCEPT !.pc = "parse_file"]
    /\ published' = Update(published, 0, "processing")
    /\ UNCHANGED <<taskFixed, validation, batches, futures, ordered_results>>

\* decompress_and_parse_parallel up to the end of the submissions.
SubmitBatches(frame_index) ==
    IF frame_index = None
    THEN /\ job' = Raise(job, [type |-> "ValueError"])
         /\ UNCHANGED <<batches, futures>>
    ELSE IF "frames" \notin DOMAIN frame_index \/ frame_index.frames = <<>>
    THEN /\ job' = Raise(job, [type |-> "ValueError"])
         /\ UNCHANGED <<batches, futures>>
    ELSE LET bs == BuildBatches(NormalizeFrames(frame_index.frames), min_batch_frames)
         IN  IF Len(bs) = 0
             THEN /\ job' = Raise(job, [type |-> "ValueError"])
                  /\ UNCHANGED <<batches, futures>>
             ELSE /\ batches' = [done |-> TRUE, list |-> bs]
                  /\ futures' = [i \in 1..Len(bs) |->
                                    [state |-> "pending", result |-> None]]
                  /\ job' = [job EXCEPT !.mode = "parallel", !.pc = "collect"]

\* ParserService.parse_file up to the choice of the decoder.
ParseFile ==
    /\ job.service = "legacy" /\ job.pc = "parse_file"
    /\ IF validation.compressed_size <= 0 /\ ~job.raw_exists
       THEN \* raw_path.stat() raises
            /\ job' = Raise(job, [type |-> "FileNotFoundError"])
            /\ UNCHANGED <<validation, batches, futures>>
       ELSE LET file_size == IF validation.compressed_size > 0
                             THEN validation.compressed_size
                             ELSE Len(text_lines)
                r == ValidateFrameIndex(validation.frame_index, file_size)
            IN  /\ validation' = [validation EXCEPT !.result = r]
                /\ IF ChooseMode(r.valid) = "parallel"
                   THEN SubmitBatches(validation.frame_index)
                   ELSE /\ job' = [job EXCEPT !.mode = "single", !.pc = "single"]
                        /\ UNCHANGED <<batches, futures>>
    /\ UNCHANGED <<taskFixed, ordered_results, published, parse_result>>

\* The executor takes the oldest submitted batch not yet started; at most
\* worker_count run at once.
WorkerStart ==
    \E b \in DOMAIN futures :
        /\ futures[b].state = "pending"
        /\ \A i \in 1..(b - 1) : futures[i].state # "pending"
        /\ Cardinality({i \in DOMAIN futures : futures[i].state = "running"})
               < WorkerCount(Len(futures))
        /\ futures' = [futures EXCEPT ![b].state = "running"]
        /\ UNCHANGED <<taskFixed, validation, batches, job, ordered_results,
                       published, parse_result>>

\* _worker_parse_batch returns or raises in its process: it raises when the
\* raw file cannot be opened and when parse_lines raises.
WorkerFinish ==
    \E b \in DOMAIN futures :
        /\ futures[b].state = "running"
        /\ LET out == WorkerParseBatch(text_lines, batches.list[b])
           IN  futures' = [futures EXCEPT ![b] =
                   IF ~job.raw_exists \/ out.raised
                   THEN [state |-> "failed", result |-> None]
                   ELSE [state |-> "done",
                         result |-> [batch_id |-> batches.list[b].batch_id,
                                     result |-> out]]]
        /\ UNCHANGED <<taskFixed, validation, batches, job, ordered_results,
                       published, parse_result>>

\* One pass of `for future in as_completed(futures)`: any finished future
\* not yet handed out.
CollectResult ==
    \E b \in DOMAIN futures :
        /\ job.pc = "collect"
        /\ \A i \in 1..Len(job.collected) : job.collected[i] # b
        /\ futures[b].state \in {"done", "failed"}
        /\ IF futures[b].state = "failed"
           THEN /\ futures' = CancelPending(futures)
                /\ job' = Raise([job EXCEPT !.collected = Append(@, b)],
                                [type |-> "RuntimeError",
                                 message |-> "parallel parse failed at batch",
                                 batch_id |-> batches.list[b].batch_id])
                /\ UNCHANGED <<ordered_results, published>>
           ELSE LET worker_output == futures[b].result
                    completed == job.completed_batches + 1
                    cb == ProgressCb([last_reported |-> job.last_reported,
                                      published |-> published],
                                     MapParallelProgress(completed, Len(futures),
                                                         0, 90))
                IN  /\ ordered_results' =
                           Put(ordered_results,
                               ResultKey(worker_output, job.completed_batches),
                               worker_output.result)
                    /\ job' = [job EXCEPT !.collected = Append(@, b),
                                          !.completed_batches = completed,
                                          !.last_reported = cb.last_reported]
                    /\ published' = cb.published
                    /\ UNCHANGED futures
        /\ UNCHANGED <<taskFixed, validation, batches, parse_result>>

\* After the loop: the results in batch order, progress 90, the merge.
FinalizeParallel ==
    /\ job.pc = "collect"
    /\ Len(job.collected) = Len(futures)
    /\ LET total_batches == Len(batches.list)
       IN  IF \E batch_id \in 0..(total_batches - 1) :
                  batch_id \notin DOMAIN ordered_results
           THEN /\ job' = Raise(job, [type |-> "RuntimeError",
                                      message |-> "missing parallel batch result"])
                /\ UNCHANGED published
           ELSE LET ordered_partials ==
                        [i \in 1..total_batches |-> ordered_results[i - 1]]
                    cb == ProgressCb([last_reported |-> job.last_reported,
                                      published |-> published], 90)
                IN  /\ job' = [job EXCEPT
                                  !.partials = [list |-> ordered_partials],
                                  !.result = BuildDataframes(
                                                 MergePartialResults(ordered_partials)),
                                  !.last_reported = cb.last_reported,
                                  !.pc = "parsed"]
                    /\ published' = cb.published
    /\ UNCHANGED <<taskFixed, validation, batches, futures, ordered_results,
                   parse_result>>

\* decompress_and_parse_single: progress 10, the whole stream through
\* parse_lines with inline merge, progress 90, the tables.
DecompressSingle ==
    /\ job.pc = "single"
    /\ LET cb10 == ProgressCb([last_reported |-> job.last_reported,
                               published |-> published], 10)
           p == ParseLines(text_lines, TRUE)
           cb90 == ProgressCb(cb10, 90)
       IN  IF ~job.raw_exists
           THEN /\ job' = Raise([job EXCEPT !.last_reported = cb10.last_reported],
                                [type |-> "FileNotFoundError"])
                /\ published' = cb10.published
           ELSE IF p.raised
           THEN /\ job' = Raise([job EXCEPT !.last_reported = cb10.last_reported],
                                [type |-> "parse_lines"])
                /\ published' = cb10.published
           ELSE /\ job' = [job EXCEPT !.result = BuildDataframes(p),
                                      !.last_reported = cb90.last_reported,
                                      !.pc = "parsed"]
                /\ published' = cb90.published
    /\ UNCHANGED <<taskFixed, validation, batches, futures, ordered_results,
                   parse_result>>

\* parse_file, phase 2: progress 90, the tables are written, progress 95.
SaveToParquet ==
    /\ job.pc = "parsed"
    /\ LET cb == ProgressCb(ProgressCb([last_reported |-> job.last_reported,
                                        published |-> published], 90), 95)
       IN  /\ job' = [job EXCEPT !.tables = job.result,
                                 !.output_dir.tables =
                                     SaveTables(@, job.result.tables),
                                 !.last_reported = cb.last_reported,
                                 !.pc = "saved"]
           /\ published' = cb.published
    /\ UNCHANGED <<taskFixed, validation, batches, futures, ordered_results,
                   parse_result>>

\* parse_file, phases 3 to 6: the manifest is written, progress 98.
WriteManifest ==
    /\ job.pc = "saved"
    /\ LET cb == ProgressCb([last_reported |-> job.last_reported,
                             published |-> published], 98)
       IN  /\ job' = [job EXCEPT !.manifest = TRUE,
                                 !.output_dir.manifest = Manifest(job.result),
                                 !.last_reported = cb.last_reported,
                                 !.pc = "returned"]
           /\ published' = cb.published
    /\ UNCHANGED <<taskFixed, validation, batches, futures, ordered_results,
                   parse_result>>

\* ParserServiceV2.parse_file: the raw file must exist; progress 10 and 90,
\* the manifest, progress 98. No table is made.
ParseFileV2 ==
    /\ job.service = "v2" /\ job.pc = "parse_file"
    /\ IF ~job.raw_exists
       THEN /\ job' = Raise(job, [type |-> "FileNotFoundError"])
            /\ UNCHANGED published
       ELSE LET cb == ProgressCb(ProgressCb(ProgressCb(
                          [last_reported |-> job.last_reported,
                           published |-> published], 10), 90), 98)
            IN  /\ job' = [job EXCEPT !.manifest = TRUE,
                                      !.result = EmptyResult,
                                      !.output_dir.manifest = Manifest(EmptyResult),
                                      !.last_reported = cb.last_reported,
                                      !.pc = "returned"]
                /\ published' = cb.published
    /\ UNCHANGED <<taskFixed, validation, batches, futures, ordered_results,
                   parse_result>>

\* ParserService.parse_file_task after parse_file returned: status
\* processed is committed, then progress 100 is shown.
TaskProcessed ==
    /\ job.service = "legacy" /\ job.pc = "returned"
    /\ parse_result' = CreateOrUpdate(parse_result,
                           ProcessedData(job.row_before.content_meta,
                                         job.output_dir.manifest))
    /\ published' = Update(published, 100, "processed")
    /\ job' = [job EXCEPT !.pc = "done"]
    /\ UNCHANGED <<taskFixed, validation, batches, futures, ordered_results>>

\* ParserService.parse_file_task, `except Exception`: status error is
\* committed with str(e), then progress 0 / error is shown.
TaskError ==
    /\ job.service = "legacy" /\ job.pc = "raised"
    /\ parse_result' = CreateOrUpdate(parse_result, ErrorData(job.error))
    /\ published' = Update(published, 0, "error")
    /\ job' = [job EXCEPT !.pc = "done"]
    /\ UNCHANGED <<taskFixed, validation, batches, futures, ordered_results>>

\* ParserServiceV2.parse_file_task after parse_file returned.
TaskProcessedV2 ==
    /\ job.service = "v2" /\ job.pc = "returned"
    /\ parse_result' = CreateOrUpdate(parse_result,
                           ProcessedData(job.row_before.content_meta,
                                         job.output_dir.manifest))
    /\ published' = Update(published, 100, "processed")
    /\ job' = [job EXCEPT !.pc = "done"]
    /\ UNCHANGED <<taskFixed, validation, batches, futures, ordered_results>>

\* ParserServiceV2.parse_file_task, `except Exception`.
TaskErrorV2 ==
    /\ job.service = "v2" /\ job.pc = "raised"
    /\ parse_result' = CreateOrUpdate(parse_result, ErrorData(job.error))
    /\ published' = Update(published, 0, "error")
    /\ job' = [job EXCEPT !.pc = "done"]
    /\ UNCHANGED <<taskFixed, validation, batches, futures, ordered_results>>

NextTask ==
    \/ ParseFileTask
    \/ ParseFileTaskV2
    \/ ParseFile
    \/ WorkerStart
    \/ WorkerFinish
    \/ CollectResult
    \/ FinalizeParallel
    \/ DecompressSingle
    \/ SaveToParquet
    \/ WriteManifest
    \/ ParseFileV2
    \/ TaskProcessed
    \/ TaskError
    \/ TaskProcessedV2
    \/ TaskErrorV2

SpecTask == InitTask /\ [][NextTask]_vars


\* ------------------------------------------------------------------ SpecFinish
\* The parse task of SpecTask with the end of parse_file_task taken one
\* statement at a time: the commit of the terminal status, which the
\* database may refuse, and the call of parse_progress.update after it. The
\* two services have the same statements there.

\* Mutant: the failure is published and never committed.
CommitError_PublishOnly ==
    /\ job.pc = "raised"
    /\ published' = Update(published, 0, "error")
    /\ job' = [job EXCEPT !.pc = "done"]
    /\ UNCHANGED <<taskFixed, validation, batches, futures, ordered_results,
                   parse_result>>

\* `with Session(engine) as session: ... create_or_update(... "processed" ...)`:
\* the row is committed, or the commit raises and control goes to
\* `except Exception`.
CommitProcessed ==
    /\ job.pc = "returned"
    /\ \/ /\ parse_result' = CreateOrUpdate(parse_result,
                                   ProcessedData(job.row_before.content_meta,
                                                 job.output_dir.manifest))
          /\ job' = [job EXCEPT !.pc = "processed_committed"]
       \/ /\ job' = Raise(job, [type |-> "OperationalError"])
          /\ UNCHANGED parse_result
    /\ UNCHANGED <<taskFixed, validation, batches, futures, ordered_results,
                   published>>

\* `parse_progress.update(file_id, 100, "processed")`
PublishProcessed ==
    /\ job.pc = "processed_committed"
    /\ published' = Update(published, 100, "processed")
    /\ job' = [job EXCEPT !.pc = "done"]
    /\ UNCHANGED <<taskFixed, validation, batches, futures, ordered_results,
                   parse_result>>

\* `except Exception`: create_or_update(... "error" ...); when this commit
\* raises the exception leaves the task and nothing is published.
CommitError ==
    /\ job.pc = "raised"
    /\ \/ /\ parse_result' = CreateOrUpdate(parse_result, ErrorData(job.error))
          /\ job' = [job EXCEPT !.pc = "error_committed"]
       \/ /\ job' = [job EXCEPT !.pc = "escaped"]
          /\ UNCHANGED parse_result
    /\ UNCHANGED <<taskFixed, validation, batches, futures, ordered_results,
                   published>>

\* `parse_progress.update(file_id, 0, "error")`
PublishError ==
    /\ job.pc = "error_committed"
    /\ published' = Update(published, 0, "error")
    /\ job' = [job EXCEPT !.pc = "done"]
    /\ UNCHANGED <<taskFixed, validation, batches, futures, ordered_results,
                   parse_result>>

NextFinish ==
    \/ ParseFileTask
    \/ ParseFileTaskV2
    \/ ParseFile
    \/ WorkerStart
    \/ WorkerFinish
    \/ CollectResult
    \/ FinalizeParallel
    \/ DecompressSingle
    \/ SaveToParquet
    \/ WriteManifest
    \/ ParseFileV2
    \/ CommitProcessed
    \/ PublishProcessed
    \/ CommitError
    \/ PublishError

SpecFinish == InitTask /\ [][NextFinish]_vars


\* ------------------------------------------------------------------ SpecRuns
\* MaxRuns runs of parse_file_task for one file, of either service, their
\* statements interleaved in every way (a run after the other included). Of
\* parse_file a run keeps what the task sees of it: the progress it
\* reports, the manifest it writes, that it returns or raises.
MaxRuns == 2

Falsy(v) == v = None \/ DOMAIN v = {}

IdleRun(service) ==
    [service |-> service, pc |-> "idle", content_meta |-> None,
     last_reported |-> 0, manifest |-> None, error |-> None, over |-> "none"]

\* The row the upload left: the metadata of the file header.
UploadedRow ==
    [NoRow EXCEPT !.status = "idle",
                  !.content_meta = [device_mac |-> "aa:bb", user_name |-> "u"]]

\* The row of an earlier successful parse of such a file.
ReparsedRow ==
    [NoRow EXCEPT !.status = "processed",
                  !.content_meta =
                      MergedMeta(UploadedRow.content_meta,
                                 [parsed_at |-> 0, duration_seconds |-> 0,
                                  raw_file_size |-> 1, keys |-> {},
                                  content_meta |-> UploadedRow.content_meta]),
                  !.processed_dir = [path |-> "processed/hash"]]

InitRuns ==
    /\ parse_result \in {NoRow, OldRow, UploadedRow, ReparsedRow}
    /\ runs \in {[task |-> t, manifest |-> None, clock |-> 0,
                   row_before |-> parse_result] :
                    t \in [1..MaxRuns -> {IdleRun("legacy"), IdleRun("v2")}]}
    /\ job = IdleJob
    /\ futures = <<>>
    /\ ordered_results = [b \in {} |-> None]
    /\ published = <<>>
    /\ validation = [frame_index |-> None, compressed_size |-> NoSize, result |-> None]
    /\ text_lines = <<>>
    /\ parsed = [single |-> None, parallel |-> None]
    /\ content = <<>>
    /\ raw_dir = EmptyDir
    /\ physical_files = [h \in {} |-> None]
    /\ sensor_files = {}
    /\ next_id = 1
    /\ verify_tasks = {}
    /\ task = IdleTask
    /\ ret = NoRet
    /\ prev = NoRet
    /\ NoBatchInit
    /\ progress_call = NoProgressCall
    /\ parse_results = NoStartup
    /\ NoSubscribeInit
    /\ requests = None
    /\ processed_dirs = {}
    /\ cancel_event = FALSE
    /\ download = None
    /\ packets_call = None

runFixed == <<storeVars, batchVars, validation, text_lines, parsed, job, futures,
              ordered_results, progress_call, parse_results, subscribeVars,
              deleteVars, cancelVars, packetVars>>

\* parse_file_task up to the call of parse_file: content_meta is read from
\* the row and stripped, ParserServiceV2 commits status processing, progress
\* 0 is shown.
RunBegin(i) ==
    /\ runs.task[i].pc = "idle"
    /\ runs' = [runs EXCEPT
                   !.task[i].pc = "parse_file",
                   !.task[i].content_meta =
                       IF parse_result.status # "none"
                          /\ ~Falsy(parse_result.content_meta)
                       THEN StripParseGeneratedMeta(parse_result.content_meta)
                       ELSE None]
    /\ parse_result' = IF runs.task[i].service = "v2"
                       THEN CreateOrUpdate(parse_result, ProcessingData("Watch"))
                       ELSE parse_result
    /\ published' = Update(published, 0, "processing")
    /\ UNCHANGED runFixed

\* _write_manifest: the manifest of a run, with `content_meta or {}`.
RunManifest(content_meta, now) ==
    [parsed_at |-> now, duration_seconds |-> 0, raw_file_size |-> 1, keys |-> {},
     content_meta |-> IF Falsy(content_meta) THEN [k \in {} |-> None]
                      ELSE content_meta]

\* The values parse_file hands to progress_cb on its way to the manifest.
ReportedProgress(service) ==
    IF service = "v2" THEN <<10, 90, 98>> ELSE <<10, 90, 90, 95, 98>>

RECURSIVE ReportAll(_, _)
ReportAll(st, values) ==
    IF values = <<>> THEN st
    ELSE ReportAll(ProgressCb(st, Head(values)), Tail(values))

\* parse_file: it raises (the raw file is missing) or it reports its
\* progress, writes manifest.json over the one in the directory and returns.
RunParse(i) ==
    /\ runs.task[i].pc = "parse_file"
    /\ \/ /\ runs' = [runs EXCEPT !.task[i].pc = "raised",
                                   !.task[i].error = [type |-> "FileNotFoundError"]]
          /\ UNCHANGED published
       \/ LET cb == ReportAll([last_reported |-> runs.task[i].last_reported,
                               published |-> published],
                              ReportedProgress(runs.task[i].service))
              m == RunManifest(runs.task[i].content_meta, runs.clock + 1)
          IN  /\ runs' = [runs EXCEPT !.task[i].pc = "returned",
                                      !.task[i].manifest = m,
                                      !.task[i].last_reported = cb.last_reported,
                                      !.manifest = m,
                                      !.clock = @ + 1]
              /\ published' = cb.published
    /\ UNCHANGED <<runFixed, parse_result>>

\* parse_file_task after parse_file returned: processed is committed with
\* the merged content_meta, progress 100 is shown. over keeps the status the
\* commit found in the row.
RunProcessed(i) ==
    /\ runs.task[i].pc = "returned"
    /\ parse_result' = CreateOrUpdate(parse_result,
                           ProcessedData(runs.task[i].content_meta,
                                         runs.task[i].manifest))
    /\ published' = Update(published, 100, "processed")
    /\ runs' = [runs EXCEPT !.task[i].pc = "done",
                            !.task[i].over = parse_result.status]
    /\ UNCHANGED runFixed

\* parse_file_task, `except Exception`.
RunError(i) ==
    /\ runs.task[i].pc = "raised"
    /\ parse_result' = CreateOrUpdate(parse_result, ErrorData(runs.task[i].error))
    /\ published' = Update(published, 0, "error")
    /\ runs' = [runs EXCEPT !.task[i].pc = "done",
                            !.task[i].over = parse_result.status]
    /\ UNCHANGED runFixed

NextRuns ==
    \/ \E i \in 1..MaxRuns : RunBegin(i)
    \/ \E i \in 1..MaxRuns : RunParse(i)
    \/ \E i \in 1..MaxRuns : RunProcessed(i)
    \/ \E i \in 1..MaxRuns : RunError(i)

SpecRuns == InitRuns /\ [][NextRuns]_vars


\* Nothing stored, nothing planned, no parse task.
CoreIdleInit ==
    /\ job = IdleJob
    /\ futures = <<>>
    /\ ordered_results = [b \in {} |-> None]
    /\ published = <<>>
    /\ parse_result = NoRow
    /\ validation = [frame_index |-> None, compressed_size |-> NoSize, result |-> None]
    /\ text_lines = <<>>
    /\ parsed = [single |-> None, parallel |-> None]
    /\ content = <<>>
    /\ raw_dir = EmptyDir
    /\ physical_files = [h \in {} |-> None]
    /\ sensor_files = {}
    /\ next_id = 1
    /\ verify_tasks = {}
    /\ task = IdleTask
    /\ ret = NoRet
    /\ prev = NoRet
    /\ NoBatchInit

\* ------------------------------------------------------------------ SpecProgress
\* map_parallel_progress on every count of completed batches and every
\* total up to MaxBatches, counts below 0 and above the total included.
MaxBatches == 10

InitProgress ==
    /\ progress_call \in [completed_batches : (0 - 1)..(MaxBatches + 1),
                           total_batches : (0 - 1)..MaxBatches,
                           result : {None}]
    /\ CoreIdleInit
    /\ parse_results = NoStartup
    /\ NoSubscribeInit
    /\ NoDeleteInit

MapCall ==
    /\ progress_call.result = None
    /\ progress_call' =
           [progress_call EXCEPT !.result =
               [value |-> MapParallelProgress(progress_call.completed_batches,
                                              progress_call.total_batches, 0, 90)]]
    /\ UNCHANGED <<coreVars, parse_results, subscribeVars, deleteVars, cancelVars,
                   runVars, packetVars>>

NextProgress == MapCall

SpecProgress == InitProgress /\ [][NextProgress]_vars


\* ------------------------------------------------------------------ SpecStartup
\* on_startup over every table of up to MaxRows ParseResult rows.
MaxRows == 2

\* The rows a stopped application may have left.
StartupRows ==
    {[NoRow EXCEPT !.status = st, !.progress = pg, !.error_message = em,
                   !.content_meta = cm] :
        st \in {"idle", "processing", "processed", "error", "failing"},
        pg \in {None, [value |-> 50]},
        em \in {None, [type |-> "earlier run"]},
        cm \in {None, [business |-> "meta"]}}

RECURSIVE RowTables(_)
RowTables(n) ==
    IF n = 0 THEN {<<>>}
    ELSE LET S == RowTables(n - 1)
         IN  S \cup {Append(l, x) : l \in {t \in S : Len(t) = n - 1}, x \in StartupRows}

InitStartup ==
    /\ \E rows \in RowTables(MaxRows) :
           parse_results = [started |-> FALSE, before |-> rows, rows |-> rows]
    /\ CoreIdleInit
    /\ progress_call = NoProgressCall
    /\ NoSubscribeInit
    /\ NoDeleteInit

\* Mutant: the error message of a stale row is kept.
ResetStale_KeepError(pr) == [pr EXCEPT !.status = "idle", !.progress = None]

\* The body of `for pr in stale`.
ResetStale(pr) ==
    [pr EXCEPT !.status = "idle", !.progress = None, !.error_message = None]

\* on_startup: `select(ParseResult).where(ParseResult.status == "processing")`,
\* the loop over the rows found and the commit.
OnStartup ==
    /\ ~parse_results.started
    /\ parse_results' =
           [parse_results EXCEPT
               !.started = TRUE,
               !.rows = [i \in DOMAIN parse_results.rows |->
                            IF parse_results.rows[i].status = "processing"
                            THEN ResetStale(parse_results.rows[i])
                            ELSE parse_results.rows[i]]]
    /\ UNCHANGED <<coreVars, progress_call, subscribeVars, deleteVars,
                   cancelVars, runVars, packetVars>>

NextStartup == OnStartup

SpecStartup == InitStartup /\ [][NextStartup]_vars


\* ------------------------------------------------------------------ SpecSubscribe
\* ParseProgressManager for one file id: a parse task that publishes its
\* updates one by one and up to MaxSubscribers calls of subscribe(), each
\* started at any moment and each with up to MaxTimeouts expired waits.
MaxSubscribers == 2
MaxTimeouts == 2

Terminal == {"processed", "error"}

\* What a parse task publishes: a successful run, a failed one, none.
PublishScripts ==
    {<<[progress |-> 0, status |-> "processing"],
       [progress |-> 10, status |-> "processing"],
       [progress |-> 100, status |-> "processed"]>>,
     <<[progress |-> 0, status |-> "processing"],
       [progress |-> 0, status |-> "error"]>>,
     <<>>}

\* at_terminal records that the subscriber's event was in _subscribers when a
\* terminal status was published.
IdleSubscriber == [pc |-> "idle", emitted |-> <<>>, timeouts |-> 0, ended |-> "no",
                   at_terminal |-> FALSE]

InitSubscribe ==
    /\ manager = [state |-> None, events |-> [e \in {} |-> FALSE]]
    /\ subscriber = [i \in 1..MaxSubscribers |-> IdleSubscriber]
    /\ to_publish \in PublishScripts
    /\ CoreIdleInit
    /\ progress_call = NoProgressCall
    /\ parse_results = NoStartup
    /\ NoDeleteInit

subscribeFixed == <<storeVars, batchVars, validation, text_lines, parsed, job,
                    futures, ordered_results, parse_result, progress_call,
                    parse_results, deleteVars, cancelVars, runVars, packetVars>>

\* ParseProgressManager.update, called by the parse task: the slot of the
\* file id is overwritten and every subscriber's event is set.
PublishUpdate ==
    /\ to_publish # <<>>
    /\ manager' = [state |-> Head(to_publish),
                   events |-> [e \in DOMAIN manager.events |-> TRUE]]
    /\ published' = Update(published, Head(to_publish).progress,
                           Head(to_publish).status)
    /\ to_publish' = Tail(to_publish)
    /\ subscriber' = [i \in DOMAIN subscriber |->
                         IF /\ Head(to_publish).status \in Terminal
                            /\ i \in DOMAIN manager.events
                         THEN [subscriber[i] EXCEPT !.at_terminal = TRUE]
                         ELSE subscriber[i]]
    /\ UNCHANGED subscribeFixed

\* `finally`: the event leaves _subscribers.
Discard(events, i) == [e \in DOMAIN events \ {i} |-> events[e]]

\* subscribe() up to its first wait: the event is registered, the current
\* state, if there is one, is yielded.
Subscribe(i) ==
    /\ subscriber[i].pc = "idle"
    /\ manager' = [manager EXCEPT
                      !.events = [e \in DOMAIN manager.events \cup {i} |->
                                     IF e = i THEN FALSE ELSE manager.events[e]]]
    /\ subscriber' = [subscriber EXCEPT
                         ![i].pc = "wait",
                         ![i].emitted = IF manager.state # None
                                        THEN Append(@, manager.state) ELSE @]
    /\ UNCHANGED <<subscribeFixed, published, to_publish>>

\* The loop body after the wait, up to the yield or the break:
\* `state = self.get(file_id)`, `if state: yield state`, `else: break`.
AfterWait(i, events, timeouts) ==
    IF manager.state # None
    THEN /\ subscriber' = [subscriber EXCEPT
                              ![i].pc = "yielded",
                              ![i].emitted = Append(@, manager.state),
                              ![i].timeouts = timeouts]
         /\ manager' = [manager EXCEPT !.events = events]
    ELSE /\ subscriber' = [subscriber EXCEPT
                              ![i].pc = "done",
                              ![i].timeouts = timeouts,
                              ![i].ended = IF timeouts > subscriber[i].timeouts
                                           THEN "timeout" ELSE "woken"]
         /\ manager' = [manager EXCEPT !.events = Discard(events, i)]

\* `await asyncio.wait_for(event.wait(), timeout=30.0)` returns because the
\* event is set; `event.clear()`.
Wake(i) ==
    /\ subscriber[i].pc = "wait"
    /\ manager.events[i]
    /\ AfterWait(i, [manager.events EXCEPT ![i] = FALSE], subscriber[i].timeouts)
    /\ UNCHANGED <<subscribeFixed, published, to_publish>>

\* The wait expires with the event not set: `except asyncio.TimeoutError: pass`.
Timeout(i) ==
    /\ subscriber[i].pc = "wait"
    /\ ~manager.events[i]
    /\ subscriber[i].timeouts < MaxTimeouts
    /\ AfterWait(i, manager.events, subscriber[i].timeouts + 1)
    /\ UNCHANGED <<subscribeFixed, published, to_publish>>

\* Mutant: the terminal state is left in its slot.
Resume_KeepState(i) ==
    /\ subscriber[i].pc = "yielded"
    /\ LET state == subscriber[i].emitted[Len(subscriber[i].emitted)]
       IN  IF state.status \in Terminal
           THEN /\ manager' = [manager EXCEPT !.events = Discard(manager.events, i)]
                /\ subscriber' = [subscriber EXCEPT ![i].pc = "done",
                                                    ![i].ended = "terminal"]
           ELSE /\ subscriber' = [subscriber EXCEPT ![i].pc = "wait"]
                /\ UNCHANGED manager
    /\ UNCHANGED <<subscribeFixed, published, to_publish>>

\* The generator is resumed after `yield state`: a terminal state is removed
\* and the loop left, any other state leads back to the wait.
Resume(i) ==
    /\ subscriber[i].pc = "yielded"
    /\ LET state == subscriber[i].emitted[Len(subscriber[i].emitted)]
       IN  IF state.status \in Terminal
           THEN /\ manager' = [state |-> None, events |-> Discard(manager.events, i)]
                /\ subscriber' = [subscriber EXCEPT ![i].pc = "done",
                                                    ![i].ended = "terminal"]
           ELSE /\ subscriber' = [subscriber EXCEPT ![i].pc = "wait"]
                /\ UNCHANGED manager
    /\ UNCHANGED <<subscribeFixed, published, to_publish>>

NextSubscribe ==
    \/ PublishUpdate
    \/ \E i \in 1..MaxSubscribers : Subscribe(i)
    \/ \E i \in 1..MaxSubscribers : Wake(i)
    \/ \E i \in 1..MaxSubscribers : Timeout(i)
    \/ \E i \in 1..MaxSubscribers : Resume(i)

SpecSubscribe == InitSubscribe /\ [][NextSubscribe]_vars

\* Scheduling of the event loop: a generator whose event is set is woken,
\* a wait whose event stays unset expires after 30 s, a consumer that was
\* handed a state asks for the next one.
SubscribeFairness ==
    \A i \in 1..MaxSubscribers :
        WF_vars(Wake(i)) /\ WF_vars(Timeout(i)) /\ WF_vars(Resume(i))

SpecSubscribeFair == InitSubscribe /\ [][NextSubscribe]_vars /\ SubscribeFairness


\* ------------------------------------------------------------------ SpecDelete
\* Uploads, imports and deletions of two contents under two names, one
\* upload or import and one deletion in flight at a time, their steps
\* interleaved in every order. The tables hold what is committed; the
\* deletion keeps its uncommitted changes in its request, and a commit of
\* the upload waits while the deletion holds the write lock of the database.
IdleUpload == [pc |-> "idle", kind |-> "upload", md5 |-> 0, filename |-> "",
               stream |-> <<>>]

IdleDelete == [pc |-> "idle", file_id |-> 0, hash |-> 0, collect |-> FALSE,
               before |-> None]

InitDelete ==
    /\ content = <<97, NL>>
    /\ requests = [upload |-> IdleUpload, delete |-> IdleDelete,
                   overlapped |-> FALSE, collected |-> FALSE, retained |-> FALSE]
    /\ processed_dirs = {}
    /\ raw_dir = EmptyDir
    /\ physical_files = [h \in {} |-> None]
    /\ sensor_files = {}
    /\ next_id = 1
    /\ verify_tasks = {}
    /\ task = IdleTask
    /\ ret = NoRet
    /\ prev = NoRet
    /\ NoBatchInit
    /\ validation = [frame_index |-> None, compressed_size |-> NoSize, result |-> None]
    /\ text_lines = <<>>
    /\ parsed = [single |-> None, parallel |-> None]
    /\ job = IdleJob
    /\ futures = <<>>
    /\ ordered_results = [b \in {} |-> None]
    /\ published = <<>>
    /\ parse_result = NoRow
    /\ progress_call = NoProgressCall
    /\ parse_results = NoStartup
    /\ NoSubscribeInit
    /\ cancel_event = FALSE
    /\ download = None
    /\ runs = <<>>
    /\ packets_call = None

deleteFixed == <<content, verify_tasks, task, ret, prev, batchVars, validation,
                 text_lines, parsed, job, futures, ordered_results, published,
                 parse_result, progress_call, parse_results, subscribeVars,
                 cancelVars, runVars, packetVars>>

\* The write lock of the database is free: no transaction has flushed a
\* change it has not committed.
LockFree == requests.delete.pc = "idle"

\* upload_file up to the choice of its branch: the PhysicalFile row and the
\* blob are looked up; on a hit with an exact match the request ends.
UploadCheck ==
    \E data \in {content, Variant(content)}, filename \in Names :
        LET md5 == Md5Hex(data)
            hit == md5 \in DOMAIN physical_files /\ RawPath(md5) \in DOMAIN raw_dir
            started == [requests EXCEPT
                           !.overlapped = @ \/ requests.delete.pc # "idle"]
        IN  /\ requests.upload.pc = "idle"
            /\ next_id <= MaxFiles
            /\ requests' =
                   IF hit /\ ExactMatch(md5, filename) # {} THEN started
                   ELSE [started EXCEPT !.upload =
                            [pc |-> IF hit THEN "insert" ELSE "save",
                             kind |-> "upload", md5 |-> md5, filename |-> filename,
                             stream |-> Compress(data)]]
            /\ UNCHANGED <<deleteFixed, raw_dir, physical_files, sensor_files,
                           next_id, processed_dirs>>

\* _download_task up to the end of the stream: the temporary file holds
\* the frames of the device's file.
ImportDownloaded ==
    \E data \in {content, Variant(content)}, filename \in Names :
        /\ requests.upload.pc = "idle"
        /\ next_id <= MaxFiles
        /\ requests' = [requests EXCEPT
                           !.overlapped = @ \/ requests.delete.pc # "idle",
                           !.upload = [pc |-> "save", kind |-> "import",
                                       md5 |-> Md5Hex(data), filename |-> filename,
                                       stream |-> Compress(data)]]
        /\ UNCHANGED <<deleteFixed, raw_dir, physical_files, sensor_files,
                       next_id, processed_dirs>>

\* The blob is put in place: save_zstd_stream writes over the blob path, the
\* import renames its temporary file unless the path exists.
SaveBlob ==
    LET u == requests.upload
    IN  /\ u.pc = "save"
        /\ raw_dir' = IF u.kind = "import" /\ RawPath(u.md5) \in DOMAIN raw_dir
                      THEN raw_dir
                      ELSE Put(raw_dir, RawPath(u.md5), u.stream)
        /\ requests' = [requests EXCEPT !.upload.pc = "physical"]
        /\ UNCHANGED <<deleteFixed, physical_files, sensor_files, next_id,
                       processed_dirs>>

\* `phy_file = crud.get_physical_file(...)`, `if not phy_file:
\* crud.create_physical_file(...)`.
EnsurePhysical ==
    LET u == requests.upload
    IN  /\ u.pc = "physical"
        /\ LockFree
        /\ physical_files' =
               IF u.md5 \in DOMAIN physical_files THEN physical_files
               ELSE Put(physical_files, u.md5,
                        [size |-> Len(u.stream), frame_index |-> None])
        /\ requests' = [requests EXCEPT !.upload.pc = "insert"]
        /\ UNCHANGED <<deleteFixed, raw_dir, sensor_files, next_id, processed_dirs>>

\* crud.create_file: the SensorFile row is committed; the import skips it
\* when the name is registered for the hash.
InsertSensorFile ==
    LET u == requests.upload
    IN  /\ u.pc = "insert"
        /\ LockFree
        /\ IF u.kind = "import" /\ ExactMatch(u.md5, u.filename) # {}
           THEN UNCHANGED <<sensor_files, next_id>>
           ELSE /\ sensor_files' = sensor_files \cup {NewSensorFile(u.md5, u.filename)}
                /\ next_id' = next_id + 1
        /\ requests' = [requests EXCEPT !.upload = IdleUpload]
        /\ UNCHANGED <<deleteFixed, raw_dir, physical_files, processed_dirs>>

\* A parse of a stored blob leaves its processed directory.
ParseStored ==
    \E h \in DOMAIN physical_files :
        /\ RawPath(h) \in DOMAIN raw_dir
        /\ h \notin processed_dirs
        /\ processed_dirs' = processed_dirs \cup {h}
        /\ requests' = [requests EXCEPT
                           !.overlapped = @ \/ requests.upload.pc # "idle"
                                            \/ requests.delete.pc # "idle"]
        /\ UNCHANGED <<deleteFixed, raw_dir, physical_files, sensor_files, next_id>>

\* The row of a hash, None when the table has none.
RowAt(table, h) == IF h \in DOMAIN table THEN [row |-> table[h]] ELSE None

\* Mutant: the rows are counted before the deletion is flushed.
OtherReferences_BeforeFlush(files, file_id, target_hash) ==
    {f \in files : f.file_hash = target_hash}

\* `select(SensorFile).where(SensorFile.file_hash == target_hash)` after
\* `session.delete(sensor_file)` and `session.flush()`.
OtherReferences(files, file_id, target_hash) ==
    {f \in files : f.id # file_id /\ f.file_hash = target_hash}

\* delete_file_safely up to the count: the row is deleted and flushed, the
\* rows of the hash are counted, the PhysicalFile row is marked deleted
\* when there is none.
DeleteStage ==
    \E sensor_file \in sensor_files :
        /\ requests.delete.pc = "idle"
        /\ LET results == OtherReferences(sensor_files, sensor_file.id,
                                          sensor_file.file_hash)
           IN  requests' = [requests EXCEPT
                   !.overlapped = @ \/ requests.upload.pc # "idle",
                   !.delete = [pc |-> IF results = {} THEN "unlink" ELSE "commit",
                               file_id |-> sensor_file.id,
                               hash |-> sensor_file.file_hash,
                               collect |-> results = {},
                               before |-> [row |-> RowAt(physical_files,
                                                         sensor_file.file_hash),
                                           blob |-> BlobAt(raw_dir,
                                                      RawPath(sensor_file.file_hash)),
                                           dir |-> sensor_file.file_hash
                                                      \in processed_dirs]]]
        /\ UNCHANGED <<deleteFixed, raw_dir, physical_files, sensor_files, next_id,
                       processed_dirs>>

\* delete_file_safely of an id that is not in the table: `return False`.
DeleteMissing ==
    \E file_id \in 1..MaxFiles :
        /\ requests.delete.pc = "idle"
        /\ \A f \in sensor_files : f.id # file_id
        /\ requests' = [requests EXCEPT
                           !.overlapped = @ \/ requests.upload.pc # "idle"]
        /\ UNCHANGED <<deleteFixed, raw_dir, physical_files, sensor_files, next_id,
                       processed_dirs>>

\* StorageService.delete_physical_file: the blob and the processed
\* directory are removed.
DeletePhysicalFile ==
    /\ requests.delete.pc = "unlink"
    /\ raw_dir' = Remove(raw_dir, RawPath(requests.delete.hash))
    /\ processed_dirs' = processed_dirs \ {requests.delete.hash}
    /\ requests' = [requests EXCEPT !.delete.pc = "commit"]
    /\ UNCHANGED <<deleteFixed, physical_files, sensor_files, next_id>>

\* `session.commit()` of delete_file_safely.
DeleteCommit ==
    LET d == requests.delete
    IN  /\ d.pc = "commit"
        /\ sensor_files' = {f \in sensor_files : f.id # d.file_id}
        /\ physical_files' = IF d.collect THEN Remove(physical_files, d.hash)
                             ELSE physical_files
        /\ requests' = [requests EXCEPT
                           !.delete = [d EXCEPT !.pc = "idle"],
                           !.collected = @ \/ d.collect,
                           !.retained = @ \/ ~d.collect]
        /\ UNCHANGED <<deleteFixed, raw_dir, next_id, processed_dirs>>

NextDelete ==
    \/ UploadCheck
    \/ ImportDownloaded
    \/ SaveBlob
    \/ EnsurePhysical
    \/ InsertSensorFile
    \/ ParseStored
    \/ DeleteStage
    \/ DeleteMissing
    \/ DeletePhysicalFile
    \/ DeleteCommit

SpecDelete == InitDelete /\ [][NextDelete]_vars


\* ------------------------------------------------------------------ SpecCancel
\* One download task of the device import and the cancellation flag of the
\* manager, which stop_all sets and reset_cancel clears at any moment.
\* stopped records that stop_all was called while the task was queued or
\* streaming.
IdleDownload == [pc |-> "idle", observed |-> FALSE, seen |-> None, stopped |-> FALSE]

InitCancel ==
    /\ content \in Inputs
    /\ cancel_event = FALSE
    /\ download = IdleDownload
    /\ runs = <<>>
    /\ packets_call = None
    /\ raw_dir = EmptyDir
    /\ physical_files = [h \in {} |-> None]
    /\ sensor_files = {}
    /\ next_id = 1
    /\ verify_tasks = {}
    /\ task = IdleTask
    /\ ret = NoRet
    /\ prev = NoRet
    /\ NoBatchInit
    /\ validation = [frame_index |-> None, compressed_size |-> NoSize, result |-> None]
    /\ text_lines = <<>>
    /\ parsed = [single |-> None, parallel |-> None]
    /\ job = IdleJob
    /\ futures = <<>>
    /\ ordered_results = [b \in {} |-> None]
    /\ published = <<>>
    /\ parse_result = NoRow
    /\ progress_call = NoProgressCall
    /\ parse_results = NoStartup
    /\ NoSubscribeInit
    /\ requests = None
    /\ processed_dirs = {}

cancelFixed == <<content, verify_tasks, ret, prev, batchVars, validation,
                 text_lines, parsed, job, futures, ordered_results, published,
                 parse_result, progress_call, parse_results, subscribeVars,
                 deleteVars, runVars, packetVars>>

\* DownloadManager.stop_all
StopAll ==
    /\ ~cancel_event
    /\ cancel_event' = TRUE
    /\ download' = [download EXCEPT
                        !.stopped = @ \/ download.pc \in {"queued", "loop"}]
    /\ UNCHANGED <<cancelFixed, task, raw_dir, physical_files, sensor_files, next_id>>

\* DownloadManager.reset_cancel, called when a new import is requested.
ResetCancel ==
    /\ cancel_event
    /\ cancel_event' = FALSE
    /\ UNCHANGED <<cancelFixed, task, download, raw_dir, physical_files,
                   sensor_files, next_id>>

\* DownloadManager.start_download of a file of the device.
SubmitDownload ==
    /\ task.state = "idle"
    /\ task' = [state |-> "queued", filename |-> "a.rawdata", data |-> content,
                body |-> content, w |-> NewWriter]
    /\ download' = [download EXCEPT !.pc = "queued"]
    /\ UNCHANGED <<cancelFixed, cancel_event, raw_dir, physical_files,
                   sensor_files, next_id>>

\* The task has read the flag as set: what the output file and the tables
\* hold at that moment.
Observe(dl) ==
    IF dl.observed THEN dl
    ELSE [dl EXCEPT !.observed = TRUE,
                    !.seen = [out_file |-> BlobAt(raw_dir, DownloadTemp),
                              physical_files |-> physical_files,
                              sensor_files |-> sensor_files]]

\* _download_task, lines 85-100: the flag is checked, then the state is
\* processing and the temporary file is opened.
TaskBegin ==
    /\ download.pc = "queued"
    /\ IF cancel_event
       THEN /\ task' = [task EXCEPT !.state = "cancelled"]
            /\ download' = [Observe(download) EXCEPT !.pc = "done"]
            /\ UNCHANGED raw_dir
       ELSE /\ task' = [task EXCEPT !.state = "processing"]
            /\ download' = [download EXCEPT !.pc = "loop"]
            /\ raw_dir' = Put(raw_dir, DownloadTemp, <<>>)
    /\ UNCHANGED <<cancelFixed, cancel_event, physical_files, sensor_files, next_id>>

\* One pass of `for chunk in resp.iter_content(...)`: the flag is checked,
\* then the chunk is hashed, buffered and cut into frames.
TaskChunk ==
    /\ download.pc = "loop"
    /\ task.body # <<>>
    /\ IF cancel_event
       THEN /\ download' = [Observe(download) EXCEPT !.pc = "tail"]
            /\ UNCHANGED <<task, raw_dir>>
       ELSE \E n \in 1..Min(READ_SIZE, Len(task.body)) :
               LET w2 == FeedChunk(task.w, SubSeq(task.body, 1, n))
               IN  /\ task' = [task EXCEPT
                                  !.w = w2,
                                  !.body = SubSeq(task.body, n + 1, Len(task.body))]
                   /\ raw_dir' = Put(raw_dir, DownloadTemp, w2.out)
                   /\ UNCHANGED download
    /\ UNCHANGED <<cancelFixed, cancel_event, physical_files, sensor_files, next_id>>

\* The stream is exhausted: the loop ends.
TaskEndOfStream ==
    /\ download.pc = "loop"
    /\ task.body = <<>>
    /\ download' = [download EXCEPT !.pc = "tail"]
    /\ UNCHANGED <<cancelFixed, cancel_event, task, raw_dir, physical_files,
                   sensor_files, next_id>>

\* `if not self.cancel_event.is_set() and len(raw_buffer) > 0:` and the
\* loop that cuts what is left of the buffer.
TaskTail ==
    /\ download.pc = "tail"
    /\ IF cancel_event
       THEN /\ download' = [Observe(download) EXCEPT !.pc = "final"]
            /\ UNCHANGED <<task, raw_dir>>
       ELSE LET w2 == FlushTail(task.w)
            IN  /\ task' = [task EXCEPT !.w = w2]
                /\ raw_dir' = Put(raw_dir, DownloadTemp, w2.out)
                /\ download' = [download EXCEPT !.pc = "final"]
    /\ UNCHANGED <<cancelFixed, cancel_event, physical_files, sensor_files, next_id>>

\* Lines 240-360: the flag is checked a last time; then the dedup of the
\* blob and the registration of the PhysicalFile and the SensorFile.
TaskFinal ==
    /\ download.pc = "final"
    /\ IF cancel_event
       THEN /\ task' = [task EXCEPT !.state = "cancelled"]
            /\ download' = [Observe(download) EXCEPT !.pc = "done"]
            /\ UNCHANGED <<raw_dir, physical_files, sensor_files, next_id>>
       ELSE LET file_hash == task.w.md5
                final_path == RawPath(file_hash)
                compressed_size == Len(raw_dir[DownloadTemp])
            IN  /\ raw_dir' = DedupBlob(raw_dir, final_path)
                /\ physical_files' =
                       IF file_hash \notin DOMAIN physical_files
                       THEN Put(physical_files, file_hash,
                                [size |-> compressed_size,
                                 frame_index |-> CompleteIndex(task.w, compressed_size)])
                       ELSE physical_files
                /\ sensor_files' =
                       sensor_files \cup {NewSensorFile(file_hash, task.filename)}
                /\ next_id' = next_id + 1
                /\ task' = [task EXCEPT !.state = "success"]
                /\ download' = [download EXCEPT !.pc = "done"]
    /\ UNCHANGED <<cancelFixed, cancel_event>>

NextCancel ==
    \/ StopAll
    \/ ResetCancel
    \/ SubmitDownload
    \/ TaskBegin
    \/ TaskChunk
    \/ TaskEndOfStream
    \/ TaskTail
    \/ TaskFinal

SpecCancel == InitCancel /\ [][NextCancel]_vars


\* ------------------------------------------------------------------ SpecPackets
\* The occurrence tally of parse_lines and the packet summary parse_file
\* makes of it. A type code is the text of field 4 of a sensor line, here a
\* sequence of characters.
MaxPacketLines == 2

\* Field 4 of the lines: registered codes in either case, hexadecimal
\* strings that are no code, strings that are not hexadecimal, nothing.
TypeCodes ==
    {<<"0", "0">>, <<"1", "a">>, <<"1", "A">>, <<"8", "2">>, <<"a", "a">>,
     <<"0">>, <<"z", "z">>, <<>>}

\* str.upper, one character.
UpperChar(c) == IF c = "a" THEN "A" ELSE IF c = "z" THEN "Z" ELSE c

Upper(code) == [k \in DOMAIN code |-> UpperChar(code[k])]

\* The value of a hexadecimal digit, -1 for another character.
HexDigit(c) ==
    IF c = "0" THEN 0 ELSE IF c = "1" THEN 1 ELSE IF c = "2" THEN 2
    ELSE IF c = "8" THEN 8 ELSE IF c \in {"a", "A"} THEN 10 ELSE -1

RECURSIVE HexValue(_, _, _)
HexValue(code, k, acc) ==
    IF k > Len(code) THEN acc
    ELSE HexValue(code, k + 1, 16 * acc + HexDigit(code[k]))

\* int(x, 16): the value, or None where Python raises ValueError.
Int16(code) ==
    IF code = <<>> \/ \E k \in DOMAIN code : HexDigit(code[k]) < 0 THEN None
    ELSE [value |-> HexValue(code, 1, 0)]

\* DataType.from_hex: the member of the enum, None for any other text.
FromHex(code) ==
    IF Upper(code) = <<"0", "0">> THEN [member |-> "BASE_INFO"]
    ELSE IF Upper(code) = <<"1", "A">> THEN [member |-> "RAW_GEOM"]
    ELSE IF Upper(code) = <<"8", "2">> THEN [member |-> "TYHX_AGC_OR_3697"]
    ELSE None

\* DATA_TYPE_MAPPING and DATA_TYPE_MAPPING_RING
TypeName(member, is_ring) ==
    IF member = "TYHX_AGC_OR_3697" /\ is_ring THEN "TYHX_3697_Data" ELSE member

\* `data_type_dict[data_type] = data_type_dict.get(data_type, 0) + 1`: the
\* dict as the list of its items in insertion order.
Tally(data_types, data_type) ==
    IF \E k \in DOMAIN data_types : data_types[k].type = data_type
    THEN [k \in DOMAIN data_types |->
             IF data_types[k].type = data_type
             THEN [data_types[k] EXCEPT !.count = @ + 1] ELSE data_types[k]]
    ELSE Append(data_types, [type |-> data_type, count |-> 1])

RECURSIVE TallyAll(_, _)
TallyAll(data_types, codes) ==
    IF codes = <<>> THEN data_types
    ELSE TallyAll(Tally(data_types, Upper(Head(codes))), Tail(codes))

\* sorted(..., key=...): the items in ascending order of their key, items
\* of equal key in the order they had.
RECURSIVE SortedByKey(_)
SortedByKey(items) ==
    IF items = <<>> THEN <<>>
    ELSE LET least == CHOOSE k \in DOMAIN items :
                          \A j \in DOMAIN items :
                              \/ items[k].key < items[j].key
                              \/ items[k].key = items[j].key /\ k <= j
         IN  <<items[least]>> \o
             SortedByKey([j \in 1..(Len(items) - 1) |->
                             IF j < least THEN items[j] ELSE items[j + 1]])

\* One entry of packets: `type_name or f"UNKNOWN({dt})"`.
Packet(item, is_ring) ==
    [type |-> item.type,
     name |-> IF FromHex(item.type) = None THEN [unknown |-> item.type]
              ELSE [known |-> TypeName(FromHex(item.type).member, is_ring)],
     count |-> item.count]

RECURSIVE Packets(_, _)
Packets(items, is_ring) ==
    IF items = <<>> THEN <<>>
    ELSE <<Packet(Head(items), is_ring)>> \o Packets(Tail(items), is_ring)

\* ParserService._format_packets: the list of packets, or the ValueError
\* of `int(x, 16)` in the sort key.
FormatPackets(data_types, is_ring) ==
    IF \E k \in DOMAIN data_types : Int16(data_types[k].type) = None
    THEN [raised |-> [type |-> "ValueError"], packets |-> None]
    ELSE [raised |-> None,
          packets |-> Packets(SortedByKey(
                          [k \in DOMAIN data_types |->
                              [type |-> data_types[k].type,
                               count |-> data_types[k].count,
                               key |-> Int16(data_types[k].type).value]]),
                          is_ring)]

InitPackets ==
    /\ packets_call \in
           {[codes |-> c, is_ring |-> r, pc |-> "lines", data_types |-> <<>>,
             raised |-> None, packets |-> None] :
               c \in UNION {[1..n -> TypeCodes] : n \in 0..MaxPacketLines},
               r \in BOOLEAN}
    /\ CoreIdleInit
    /\ progress_call = NoProgressCall
    /\ parse_results = NoStartup
    /\ NoSubscribeInit
    /\ requests = None
    /\ processed_dirs = {}
    /\ cancel_event = FALSE
    /\ download = None
    /\ runs = <<>>

packetFixed == <<coreVars, progress_call, parse_results, subscribeVars,
                 deleteVars, cancelVars, runVars>>

\* parse_lines over sensor lines with these type codes: each is counted
\* under its upper-case text, before the code is looked up.
TallyLines ==
    /\ packets_call.pc = "lines"
    /\ packets_call' = [packets_call EXCEPT
                           !.data_types = TallyAll(<<>>, packets_call.codes),
                           !.pc = "parsed"]
    /\ UNCHANGED packetFixed

\* parse_file, phase 4: `packets = _format_packets(data_types, is_ring)`;
\* an exception leaves parse_file.
FormatCall ==
    /\ packets_call.pc = "parsed"
    /\ LET r == FormatPackets(packets_call.data_types, packets_call.is_ring)
       IN  packets_call' = [packets_call EXCEPT !.raised = r.raised,
                                                !.packets = r.packets,
                                                !.pc = "done"]
    /\ UNCHANGED packetFixed

NextPackets == TallyLines \/ FormatCall

SpecPackets == InitPackets /\ [][NextPackets]_vars


\* ================================================================== claims
\* An operation has produced a frame index (a successful rebuild or a
\* finished import); ret.written holds the compressed file it wrote and
\* ret.data the decompressed bytes it consumed.
Produced == ret.op \in {"verify", "import"} /\ ret.frame_index # None

RECURSIVE SumDl(_)
SumDl(fs) == IF fs = <<>> THEN 0 ELSE Head(fs).dl + SumDl(Tail(fs))

Contiguous(fs) ==
    /\ fs # <<>> => fs[1].cs = 0
    /\ \A i \in 2..Len(fs) : fs[i].cs = fs[i - 1].cs + fs[i - 1].cl

\* C2 -- Round-trip: the frames of a produced index, each read at [cs, cs+cl)
\* and decompressed on its own, concatenated in index order, are the input;
\* the frames' dl add up to originalSize, and the reconstruction hashes to
\* the content hash.
C2_RoundTrip ==
    Produced =>
        LET idx == ret.frame_index
            rec == ReadFrames(ret.written, idx.frames)
        IN  /\ rec.ok
            /\ rec.data = ret.data
            /\ SumDl(idx.frames) = idx.originalSize
            /\ idx.originalSize = Len(ret.data)
            /\ Md5Hex(rec.data) = ret.hash

C2_Witness ==
    /\ prev.op = "import" /\ prev.frame_index # None
    /\ Len(prev.frame_index.frames) >= 2
    /\ ret.op = "verify" /\ ret.valid
    /\ Len(ret.frame_index.frames) >= 2

RuleCut(rest, idx) ==
    LET hits == {j \in idx.frameSize..(Min(idx.maxFrameSize, Len(rest)) - 1) :
                     rest[j + 1] = NL}
    IN  IF hits # {}
        THEN (CHOOSE j \in hits : \A k \in hits : j <= k) + 1
        ELSE idx.maxFrameSize

\* C4 -- no frame is empty or longer than maxFrameSize, and every frame but
\* the last of the stream is cut where the rule prescribes.
C4_Framing ==
    Produced =>
        LET idx == ret.frame_index
            fs == idx.frames
        IN  \A i \in 1..Len(fs) :
                /\ fs[i].dl >= 1
                /\ fs[i].dl <= idx.maxFrameSize
                /\ i < Len(fs) =>
                       fs[i].dl = RuleCut(SubSeq(ret.data, fs[i].ds + 1, Len(ret.data)), idx)

C4_Witness ==
    /\ ret.op = "verify" /\ ret.valid
    /\ Len(ret.frame_index.frames) >= 2
    /\ ret.frame_index.frames[1].dl < MAX_CHUNK_SIZE
    /\ ret.frame_index.frames[1].dl > MIN_CHUNK_SIZE

\* C5 -- a frame's nl flag is true exactly when the last decompressed byte
\* of the frame is a newline.
C5_NewlineFlag ==
    Produced =>
        LET fs == ret.frame_index.frames
        IN  \A i \in 1..Len(fs) :
                fs[i].nl <=> (fs[i].dl > 0 /\ ret.data[fs[i].ds + fs[i].dl] = NL)

C5_Witness ==
    /\ ret.op = "import"
    /\ \E i, j \in 1..Len(ret.frame_index.frames) :
          ret.frame_index.frames[i].nl /\ ~ret.frame_index.frames[j].nl


\* The expected hash of the last verify equals the hash of what the file
\* held before the call.
HashMatched ==
    /\ ret.op = "verify"
    /\ ret.blob_before # None
    /\ LET rd == StreamRead(ret.blob_before.bytes, 1)
       IN  rd.ok /\ Md5Hex(Flatten(rd.chunks)) = ret.hash

DecodedSize(bytes) == Len(Flatten(StreamRead(bytes, 1).chunks))

C7_FailureUntouched ==
    (ret.op = "verify" /\ ~ret.valid) =>
        /\ ret.frame_index = None
        /\ ~ret.rebuilt
        /\ BlobAt(raw_dir, RawPath(ret.hash)) = ret.blob_before
        /\ RebuildTemp \notin DOMAIN raw_dir

C7_Witness ==
    /\ ret.op = "verify" /\ ~ret.valid
    /\ ret.existed
    /\ ret.io > 0
    /\ ret.blob_before # [bytes |-> ret.written]

\* C8 -- a second call right after a successful one returns the same index.
C8_RebuildStable ==
    (prev.op = "verify" /\ prev.valid /\ ret.op = "verify") =>
        /\ ret.valid
        /\ ret.frame_index = prev.frame_index

C8_Witness ==
    /\ prev.op = "verify" /\ prev.valid
    /\ ret.op = "verify" /\ ret.valid
    /\ Len(ret.frame_index.frames) >= 2
    /\ ret.blob_before = [bytes |-> prev.written]


\* The content-addressed blobs in the raw directory.
RawBlobs == {p \in DOMAIN raw_dir : p[1] = "raw"}

WriteDone == ret.op \in {"upload", "import"}

\* What every write leaves behind: its hash is the hash of its bytes, and
\* the catalog rows and the blobs correspond one to one.
OneBlobPerHash ==
    /\ ret.hash = Md5Hex(ret.data)
    /\ ret.hash \in DOMAIN physical_files
    /\ RawBlobs = {RawPath(h) : h \in DOMAIN physical_files}

\* C1 (as claimed) -- a write of bytes whose blob is already stored yields
\* the same hash, keeps one row and one blob, and writes no compressed byte.
C1_Original ==
    (WriteDone /\ ret.existed) =>
        /\ OneBlobPerHash
        /\ ret.io = 0

\* C1 (amended) -- a write of bytes whose blob is already stored yields the
\* same hash, keeps one row and one blob, and leaves the stored blob as it
\* was: an upload writes nothing, an import writes only its temporary file,
\* which is gone when the task has succeeded.
C1_Dedup ==
    WriteDone =>
        /\ OneBlobPerHash
        /\ ret.existed =>
              /\ BlobAt(raw_dir, RawPath(ret.hash)) = ret.blob_before
              /\ ret.op = "upload" => ret.io = 0
              /\ (ret.op = "import" /\ task.state = "success") =>
                     DownloadTemp \notin DOMAIN raw_dir

C1_Witness ==
    /\ ret.op = "import" /\ ret.existed
    /\ ret.io > 0
    /\ ret.blob_before # [bytes |-> ret.written]
    /\ Cardinality(sensor_files) = 2
    /\ Cardinality(DOMAIN physical_files) = 1

\* C9 -- a batch is closed exactly when it holds at least min_batch_frames
\* frames and the frame just added ends with a newline: every batch but the
\* last has that many frames and ends on an nl frame, and no batch runs past
\* a frame at which it was due to close.
C9_CloseRule ==
    batches.done =>
        \A k \in 1..Len(batches.list) :
            LET fs == batches.list[k].frames
            IN  /\ k < Len(batches.list) =>
                      (Len(fs) >= min_batch_frames /\ fs[Len(fs)].nl)
                /\ \A j \in 1..(Len(fs) - 1) : ~(j >= min_batch_frames /\ fs[j].nl)

C9_Witness ==
    /\ batches.done
    /\ Len(batches.list) >= 2
    /\ Len(batches.list[1].frames) > min_batch_frames
    /\ min_batch_frames >= 2

RECURSIVE ConcatFrames(_)
ConcatFrames(bs) ==
    IF bs = <<>> THEN <<>> ELSE Head(bs).frames \o ConcatFrames(Tail(bs))

\* C10 -- the batches are an ordered partition of the frame list: ids
\* 0..n-1, adjacent index ranges covering 0..len-1, each batch holding
\* exactly the frames of its range, and a trailing partial batch included.
C10_Partition ==
    batches.done =>
        LET bs == batches.list
            n == Len(bs)
        IN  /\ ConcatFrames(bs) = frames
            /\ frames # <<>> => n >= 1
            /\ \A k \in 1..n :
                  /\ bs[k].batch_id = k - 1
                  /\ bs[k].frames # <<>>
                  /\ bs[k].start_frame_idx =
                         (IF k = 1 THEN 0 ELSE bs[k - 1].end_frame_idx + 1)
                  /\ bs[k].frames =
                         SubSeq(frames, bs[k].start_frame_idx + 1, bs[k].end_frame_idx + 1)
            /\ n >= 1 => bs[n].end_frame_idx = Len(frames) - 1

C10_Witness ==
    /\ batches.done
    /\ Len(batches.list) >= 2
    /\ Len(batches.list[Len(batches.list)].frames) < min_batch_frames


\* The lines of the batches, each batch decoded on its own, in batch order.
RECURSIVE LinesOfBatches(_, _)
LinesOfBatches(file, bs) ==
    IF bs = <<>> THEN <<>>
    ELSE BatchLines(file, Head(bs).frames) \o LinesOfBatches(file, Tail(bs))

PlannedBatches(m) == BuildBatches(NormalizeFrames(ret.frame_index.frames), m)

WellFormedIndex(fi) ==
    /\ fi # None
    /\ IsDict(fi)
    /\ "frames" \in DOMAIN fi
    /\ Len(fi.frames) > 0
    /\ \A i \in 1..Len(fi.frames) :
          /\ IsDict(fi.frames[i])
          /\ {"cs", "cl", "dl"} \subseteq DOMAIN fi.frames[i]
          /\ fi.frames[i].cs >= 0 /\ fi.frames[i].cl >= 0 /\ fi.frames[i].dl >= 0
          /\ fi.frames[i].cs =
                (IF i = 1 THEN 0 ELSE fi.frames[i - 1].cs + fi.frames[i - 1].cl)

Validated == validation.result # None

\* C12 (as claimed) -- an index is accepted if and only if it is well formed
\* and the cumulative compressed length does not exceed the file size (when
\* a size is given at all).
C12_Original ==
    Validated =>
        LET fi == validation.frame_index
            size == validation.compressed_size
        IN  validation.result.valid <=>
                (WellFormedIndex(fi) /\ (size = NoSize \/ SumCl(fi.frames) <= size))

\* C12 (amended) -- an index is accepted if and only if it is well formed
\* and, when the size given is positive, the cumulative compressed length
\* does not exceed it; a rejection carries a reason other than "ok".
C12_ValidateIff ==
    Validated =>
        LET fi == validation.frame_index
            size == validation.compressed_size
        IN  /\ validation.result.valid <=>
                  (WellFormedIndex(fi) /\ (size > 0 => SumCl(fi.frames) <= size))
            /\ validation.result.valid <=> (validation.result.reason = "ok")

C12_Witness ==
    /\ Validated
    /\ WellFormedIndex(validation.frame_index)
    /\ Len(validation.frame_index.frames) = 2
    /\ validation.compressed_size > 0
    /\ SumCl(validation.frame_index.frames) > validation.compressed_size
    /\ ~validation.result.valid


BothParsed == parsed.single # None /\ parsed.parallel # None

\* C14 -- Parallel/serial equivalence: for the same file and any line-aligned
\* index, the parallel decoder and the single-stream decoder return the same
\* tables, histogram and labels (stamps included), or both fail.
C14_Equivalence ==
    BothParsed => parsed.single = parsed.parallel


\* The records parse_lines makes for channel ch, one per sensor line of that
\* channel, in file order and before any merging.
RECURSIVE ChannelItems(_, _)
ChannelItems(ls, ch) ==
    IF ls = <<>> THEN <<>>
    ELSE (IF Head(ls).kind = "sensor" /\ Head(ls).ch = ch
          THEN <<FromBytes(Head(ls))>> ELSE <<>>) \o ChannelItems(Tail(ls), ch)

RunStarts(items) ==
    {i \in 1..Len(items) : i = 1 \/ items[i].serial_number # items[i - 1].serial_number}

RunEnd(items, i) ==
    IF \E j \in RunStarts(items) : j > i
    THEN (CHOOSE j \in RunStarts(items) :
              j > i /\ \A k \in RunStarts(items) : k > i => j <= k) - 1
    ELSE Len(items)

RECURSIVE ConcatData(_)
ConcatData(items) ==
    IF items = <<>> THEN <<>> ELSE Head(items).data \o ConcatData(Tail(items))

RECURSIVE SumArrSize(_)
SumArrSize(items) ==
    IF items = <<>> THEN 0 ELSE Head(items).arr_size + SumArrSize(Tail(items))

\* `merged` is `items` with every maximal run of equal serial numbers made
\* into one record: arrays concatenated, declared sizes added, in order.
IsRunMerge(merged, items) ==
    /\ Len(merged) = Cardinality(RunStarts(items))
    /\ \A i \in RunStarts(items) :
          LET k == Cardinality({j \in RunStarts(items) : j <= i})
              run == SubSeq(items, i, RunEnd(items, i))
          IN  /\ merged[k].serial_number = items[i].serial_number
              /\ merged[k].unix_timestamp = items[i].unix_timestamp
              /\ merged[k].data = ConcatData(run)
              /\ merged[k].arr_size = SumArrSize(run)

TableOf(res, ch) == IF ch \in DOMAIN res.tables THEN res.tables[ch] ELSE <<>>

\* C17 -- Continuation merge: in both decoders (inline merge of parse_lines,
\* merge_consecutive_items after the batches) the table of an accelerometer
\* or PPG channel has one record per maximal run of consecutive records of
\* that channel with equal serial number, in order, with the run's arrays
\* concatenated and its arr_size summed.
C17_ContinuationMerge ==
    \A ch \in MergeChannels :
        /\ (parsed.single # None /\ ~parsed.single.raised) =>
               IsRunMerge(TableOf(parsed.single.result, ch), ChannelItems(text_lines, ch))
        /\ (parsed.parallel # None /\ ~parsed.parallel.raised) =>
               IsRunMerge(TableOf(parsed.parallel.result, ch), ChannelItems(text_lines, ch))

\* Serial numbers 5, 5, 7 in three batches: two records, the first of size 2.
C17_Witness ==
    /\ BothParsed /\ ~parsed.single.raised /\ ~parsed.parallel.raised
    /\ Len(text_lines) = 3
    /\ \A i \in 1..3 : text_lines[i].kind = "sensor" /\ text_lines[i].ch = "acc"
    /\ text_lines[1].serial = 5 /\ text_lines[2].serial = 5 /\ text_lines[3].serial = 7
    /\ Len(frames) = 3 /\ min_batch_frames = 1
    /\ Len(parsed.parallel.result.tables["acc"]) = 2
    /\ Len(parsed.single.result.tables["acc"]) = 2
    /\ parsed.parallel.result.tables["acc"][1].arr_size = 2

\* The stamps the annotations of the file must carry, in file order: the
\* time of the last sensor line before each of them, 0 when there is none.
RECURSIVE ExpectedLabels(_, _)
ExpectedLabels(ls, last) ==
    IF ls = <<>> THEN <<>>
    ELSE IF Head(ls).kind = "label"
    THEN <<[label |-> Head(ls).ts, unix_timestamp |-> last]>>
             \o ExpectedLabels(Tail(ls), last)
    ELSE ExpectedLabels(Tail(ls), IF Head(ls).kind = "sensor" THEN Head(ls).ts ELSE last)

\* C18 -- in both decoders every annotation carries the unix timestamp of the
\* last sensor line before it in the file.
C18_LabelStamp ==
    /\ (parsed.single # None /\ ~parsed.single.raised) =>
           parsed.single.result.labels = ExpectedLabels(text_lines, 0)
    /\ (parsed.parallel # None /\ ~parsed.parallel.raised) =>
           parsed.parallel.result.labels = ExpectedLabels(text_lines, 0)

RECURSIVE RecordCount(_, _)
RecordCount(collectors, chs) ==
    IF chs = {} THEN 0
    ELSE LET c == CHOOSE x \in chs : TRUE
         IN  Len(collectors[c]) + RecordCount(collectors, chs \ {c})

\* C19 -- parse_lines raises for no sequence of lines; without merging it
\* returns exactly one record per sensor line of a known channel (a cut-off
\* payload gives a record with default fields), whatever other lines stand
\* between them.
C19_Tolerance ==
    parsed.parallel # None =>
        LET p == ParseLines(text_lines, FALSE)
        IN  /\ ~p.raised
            /\ ~parsed.parallel.raised
            /\ \A ch \in Channels : p.collectors[ch] = ChannelItems(text_lines, ch)
            /\ RecordCount(p.collectors, Channels) =
                   Cardinality({i \in 1..Len(text_lines) :
                                   text_lines[i].kind = "sensor"
                                   /\ text_lines[i].ch \in Channels})


C15_OrderedReassembly ==
    job.partials # None =>
        /\ Len(job.partials.list) = Len(batches.list)
        /\ \A i \in 1..Len(batches.list) :
              /\ batches.list[i].batch_id = i - 1
              /\ job.partials.list[i] = WorkerParseBatch(text_lines, batches.list[i])
              /\ futures[i].state = "done"
              /\ Cardinality({k \in 1..Len(job.collected) : job.collected[k] = i}) = 1
        /\ job.result = BuildDataframes(MergePartialResults(job.partials.list))

\* The second batch was taken before the first, and their results differ.
C15_Witness ==
    /\ job.partials # None
    /\ job.collected = <<2, 1>>
    /\ job.partials.list[1] # job.partials.list[2]

\* The dispatcher has taken the result of a batch whose worker raised.
WorkerFailed == "batch_id" \in DOMAIN job.error

C16_Outcome ==
    WorkerFailed =>
        /\ job.pc \in {"raised", "done"}
        /\ \A b \in DOMAIN futures : futures[b].state # "pending"
        /\ job.partials = None /\ job.result = None
        /\ job.tables = None /\ ~job.manifest
        /\ job.pc = "done" =>
               /\ parse_result.status = "error"
               /\ parse_result.error_message = job.error
               /\ parse_result.error_message.batch_id \in
                      {batches.list[b].batch_id :
                          b \in {i \in DOMAIN futures : futures[i].state = "failed"}}

C16_NoMoreProgress ==
    WorkerFailed' =>
        \A i \in (Len(published) + 1)..Len(published') :
            published'[i].status # "processing"

\* C16 -- once the dispatcher has taken the result of a batch whose worker
\* raised: no batch is left waiting to start (all of them are cancelled),
\* the merge has not run and never runs, no table and no manifest is
\* written, nothing more is published with status processing, and when the
\* task returns the ParseResult row has status error and the message of
\* that failure.
C16_AllOrNothing == [](C16_Outcome) /\ [][C16_NoMoreProgress]_vars

\* The first batch was taken and its progress published, the second failed,
\* the third was cancelled before it started; the task has returned.
C16_Witness ==
    /\ WorkerFailed /\ job.pc = "done"
    /\ Len(futures) = 3
    /\ futures[1].state = "done" /\ futures[2].state = "failed"
    /\ futures[3].state = "cancelled"
    /\ job.collected = <<1, 2>>
    /\ parse_result.status = "error"
    /\ job.raw_exists

\* C20 -- a run of ParserServiceV2.parse_file_task commits status
\* processing first and after it exactly one of processed and error; when
\* it has returned the row holds that last status, never processing,
\* whether parse_file returned or raised.
C20_StatusMachine ==
    job.service = "v2" =>
        /\ parse_result.writes \in {<<>>, <<"processing">>,
                                    <<"processing", "processed">>,
                                    <<"processing", "error">>}
        /\ job.pc # "idle" => parse_result.writes # <<>>
        /\ job.pc \in {"parse_file", "returned", "raised"} =>
               parse_result.status = "processing"
        /\ job.pc = "done" =>
               /\ Len(parse_result.writes) = 2
               /\ parse_result.status = parse_result.writes[2]
               /\ parse_result.status = (IF job.error = None THEN "processed"
                                         ELSE "error")

\* parse_file raised (the raw file is missing) over a row left by an earlier
\* run: processing, then error.
C20_Witness ==
    /\ job.service = "v2" /\ job.pc = "done" /\ ~job.raw_exists
    /\ parse_result.writes = <<"processing", "error">>
    /\ parse_result.status = "error"
    /\ parse_result.error_message = [type |-> "FileNotFoundError"]


\* The task has returned after parse_file raised.
FailedParse == job.pc = "done" /\ job.error # None

C23_ProgressMapping ==
    progress_call.result # None =>
        LET c == progress_call.completed_batches
            t == progress_call.total_batches
            v == progress_call.result.value
        IN  /\ t <= 0 => v = 0
            /\ t > 0 => v = (90 * Min(Max(c, 0), t)) \div t
            /\ v \in 0..90
            /\ v <= MapParallelProgress(c + 1, t, 0, 90)
            /\ (t > 0 /\ c <= 0) => v = 0
            /\ t > 0 => (v = 90 <=> c >= t)

\* C29 -- Within one parse task the progress values published with status
\* processing are strictly increasing, whatever the order in which the
\* batches complete; the publication of a finished task ends with
\* (100, processed) on success and with (0, error) on failure, and nothing
\* before that last one is terminal.
C29_MonotonicProgress ==
    /\ \A i, j \in 1..Len(published) :
           (i < j /\ published[i].status = "processing"
                  /\ published[j].status = "processing")
               => published[i].progress < published[j].progress
    /\ \A i \in 1..(Len(published) - 1) : published[i].status = "processing"
    /\ job.pc = "done" =>
           /\ published # <<>>
           /\ published[Len(published)] =
                  IF job.error = None
                  THEN [progress |-> 100, status |-> "processed"]
                  ELSE [progress |-> 0, status |-> "error"]
    /\ job.pc # "done" =>
           \A i \in 1..Len(published) : published[i].status = "processing"

\* A parallel parse of several batches that finished and whose last batch
\* was not the last to complete: the callback was given 90 three times.
C29_Witness ==
    /\ job.pc = "done" /\ job.error = None /\ job.mode = "parallel"
    /\ Len(job.collected) >= 2
    /\ job.collected[Len(job.collected)] # Len(job.collected)
    /\ Len(published) >= 5

\* A failed task after some progress was shown.
C29_WitnessError ==
    /\ job.pc = "done" /\ job.error # None
    /\ Len(published) >= 3

\* C21 -- After the startup sweep every ParseResult that was in status
\* processing is idle with progress and error_message cleared and its other
\* fields as before, every other row is as it was, and no row is in status
\* processing.
C21_StartupSweep ==
    parse_results.started =>
        \A i \in DOMAIN parse_results.rows :
            LET old == parse_results.before[i]
                new == parse_results.rows[i]
            IN  /\ new.status # "processing"
                /\ IF old.status = "processing"
                   THEN /\ new.status = "idle"
                        /\ new.progress = None
                        /\ new.error_message = None
                        /\ \A k \in DOMAIN old \ {"status", "progress", "error_message"} :
                               new[k] = old[k]
                   ELSE new = old

\* The sweep ran over a stale row that had a progress and an error message
\* and over a failed row that keeps its message.
C21_Witness ==
    /\ parse_results.started
    /\ \E i, j \in DOMAIN parse_results.rows :
           /\ parse_results.before[i].status = "processing"
           /\ parse_results.before[i].progress # None
           /\ parse_results.before[i].error_message # None
           /\ parse_results.before[i].content_meta # None
           /\ parse_results.rows[j].status = "error"
           /\ parse_results.rows[j].error_message # None

\* C24 -- Once a subscriber has emitted a state whose status is processed
\* or error it emits nothing further, whenever the subscription started.
C24_TerminalIsLast ==
    \A i \in DOMAIN subscriber :
        \A k \in 1..(Len(subscriber[i].emitted) - 1) :
            subscriber[i].emitted[k].status \notin Terminal

\* C30 -- A wait that times out while no terminal status has been published
\* does not end the subscription, also when nothing has been published yet.
C30_TimeoutKeepsWaiting ==
    \A i \in DOMAIN subscriber :
        (/\ subscriber[i].ended = "timeout"
         /\ \A k \in 1..Len(published) : published[k].status \notin Terminal)
            => subscriber[i].pc # "done"

Quiescent == requests.upload.pc = "idle" /\ requests.delete.pc = "idle"

\* Every hash a SensorFile row names has its PhysicalFile row and its blob.
ReferencesIntact ==
    \A f \in sensor_files :
        /\ f.file_hash \in DOMAIN physical_files
        /\ RawPath(f.file_hash) \in DOMAIN raw_dir

\* The commit of a deletion: the record, the blob and the processed
\* directory of the hash are gone when no row names the hash any more, and
\* are as they were before the deletion otherwise.
DeleteCollectsExactly ==
    (requests.delete.pc = "commit" /\ requests'.delete.pc = "idle"
         /\ ~requests'.overlapped) =>
        LET d == requests.delete
        IN  IF \A f \in sensor_files' : f.file_hash # d.hash
            THEN /\ d.hash \notin DOMAIN physical_files'
                 /\ RawPath(d.hash) \notin DOMAIN raw_dir'
                 /\ d.hash \notin processed_dirs'
            ELSE /\ d.hash \in DOMAIN physical_files'
                 /\ RowAt(physical_files', d.hash) = d.before.row
                 /\ BlobAt(raw_dir', RawPath(d.hash)) = d.before.blob
                 /\ (d.hash \in processed_dirs') = d.before.dir

\* C25 -- In a sequence of uploads, imports and deletions that do not
\* overlap, delete_file_safely removes the PhysicalFile record, the blob and
\* the processed directory of the hash exactly when no other SensorFile row
\* names the hash once the deletion is staged, and between the requests a
\* hash named by a SensorFile row has its PhysicalFile record and its blob.
C25_ReferenceCounted ==
    /\ []((Quiescent /\ ~requests.overlapped) => ReferencesIntact)
    /\ [][DeleteCollectsExactly]_vars

\* Two rows named one hash; the first deletion kept the blob, the second
\* one removed it, and no two requests overlapped.
C25_Witness ==
    /\ Quiescent /\ ~requests.overlapped
    /\ requests.collected /\ requests.retained
    /\ sensor_files = {}
    /\ raw_dir = EmptyDir

\* C26 -- Whenever no request is in flight, however the steps of a deletion
\* and of an upload or import of the same content were interleaved, every
\* hash a SensorFile row names has its PhysicalFile record and its blob.
C26_NoDanglingReference == Quiescent => ReferencesIntact

\* The bytes are a whole number of frames, each of which decodes.
WholeFrames(out_file) ==
    out_file # None => StreamRead(out_file.bytes, 1).ok

\* C27 -- A download task that has read the cancellation flag as set writes
\* no further frame to its output file, registers no PhysicalFile and no
\* SensorFile, and ends in state cancelled; the output file holds whole
\* frames only at the moment the flag is observed.
C27_Cancellation ==
    download.observed =>
        /\ BlobAt(raw_dir, DownloadTemp) = download.seen.out_file
        /\ physical_files = download.seen.physical_files
        /\ sensor_files = download.seen.sensor_files
        /\ download.pc = "done" => task.state = "cancelled"
        /\ WholeFrames(download.seen.out_file)

\* Every frame of fs, read at [cs, cs + cl) of file, is one compressed unit
\* that decompresses to dl bytes.
FramesDescribe(file, fs) ==
    \A i \in 1..Len(fs) :
        LET fr == Decompress(Slice(file, fs[i].cs, fs[i].cs + fs[i].cl))
        IN  /\ fs[i].cs + fs[i].cl <= Len(file)
            /\ fr.ok
            /\ fr.next = fs[i].cl + 1
            /\ Len(fr.data) = fs[i].dl

\* C28 -- Whenever a PhysicalFile row holds a frame index, the index
\* describes the bytes stored at the blob path of its hash, whatever uploads,
\* verifications and device imports have run.
C28_IndexDescribesBlob ==
    \A h \in DOMAIN physical_files :
        (physical_files[h].frame_index # None /\ RawPath(h) \in DOMAIN raw_dir)
            => FramesDescribe(raw_dir[RawPath(h)], physical_files[h].frame_index.frames)

\* C31 -- Every subscriber whose event was registered when a terminal status
\* was published has emitted a terminal state by the time it has terminated.
C31_AllEmitTerminal ==
    \A i \in DOMAIN subscriber :
        (subscriber[i].at_terminal /\ subscriber[i].pc = "done")
            => \E k \in 1..Len(subscriber[i].emitted) :
                   subscriber[i].emitted[k].status \in Terminal

AtTerminal == {i \in DOMAIN subscriber : subscriber[i].at_terminal}

Released ==
    /\ \A i \in AtTerminal : subscriber[i].pc = "done"
    /\ manager.state = None
    /\ DOMAIN manager.events = {}

\* C32 -- Under fair scheduling, once a terminal status has been published
\* while at least one subscriber was registered, a moment comes at which all
\* those subscribers have terminated and the manager holds neither a
\* subscriber entry nor a state slot for the file id.
C32_EventuallyReleased == (AtTerminal # {}) ~> Released

\* Two subscribers were registered at the terminal publication, both have
\* terminated and the manager is empty.
C32_Witness == Cardinality(AtTerminal) >= 2 /\ Released

\* The statuses published so far that end a parse.
PublishedTerminal ==
    {published[k].status : k \in {n \in 1..Len(published) :
                                     published[n].status \in Terminal}}

\* A step that publishes a terminal state finds its status in the row.
PublishAfterCommit ==
    (Len(published') > Len(published)
        /\ published'[Len(published')].status \in Terminal)
    => /\ parse_result.status = published'[Len(published')].status
       /\ parse_result' = parse_result

\* C33 -- In a parse task a terminal state is published only when the
\* ParseResult row has been committed with the same status, processed
\* before (100, processed) and error before (0, error); from the publication
\* on the row shows that status.
C33_CommitBeforePublish ==
    /\ [](\A st \in PublishedTerminal : parse_result.status = st)
    /\ [][PublishAfterCommit]_vars

\* The commit of processed was refused, error was committed and published.
C33_Witness ==
    /\ job.pc = "done" /\ job.error = [type |-> "OperationalError"]
    /\ parse_result.status = "error"
    /\ PublishedTerminal = {"error"}

AllV2 == \A i \in DOMAIN runs.task : runs.task[i].service = "v2"

AllDone == \A i \in DOMAIN runs.task : runs.task[i].pc = "done"

\* C34 -- However the runs of ParserServiceV2.parse_file_task for one file
\* interleave, a terminal status is committed only over status processing,
\* and when all runs have returned with the row processed, the manifest the
\* row holds is the one in the output directory.
C34_InterleavedStatusMachine ==
    AllV2 =>
        /\ \A i \in DOMAIN runs.task :
               runs.task[i].pc = "done" => runs.task[i].over = "processing"
        /\ (AllDone /\ parse_result.status = "processed") =>
               parse_result.content_meta.manifest = runs.manifest

\* The fields of a content_meta that no parse derives.
BusinessKeys(content_meta) ==
    IF Falsy(content_meta) THEN [k \in {} |-> None]
    ELSE [k \in DOMAIN content_meta \ ParseGenerated |-> content_meta[k]]

\* The manifests at hand: the one in the directory, the ones the runs
\* hold, the one in the row.
ManifestsWritten ==
    {m \in {runs.manifest} \cup {runs.task[i].manifest : i \in DOMAIN runs.task}
           \cup (IF Falsy(parse_result.content_meta) THEN {}
                 ELSE {Get(parse_result.content_meta, "manifest")}) : m # None}

\* C38 -- Over every sequence of parse attempts on one file, failed ones
\* included, the fields of content_meta other than manifest, parse_summary,
\* duration_seconds and raw_file_size stay what they were, and the
\* content_meta inside a manifest holds none of these four.
C38_BusinessMetaKept ==
    /\ BusinessKeys(parse_result.content_meta) =
           BusinessKeys(runs.row_before.content_meta)
    /\ \A m \in ManifestsWritten : DOMAIN m.content_meta \cap ParseGenerated = {}

\* A failed and a successful attempt over the row of an earlier parse, whose
\* content_meta held the four derived fields.
C38_Witness ==
    /\ AllDone
    /\ runs.row_before = ReparsedRow
    /\ \E i, j \in DOMAIN runs.task :
           runs.task[i].error # None /\ runs.task[j].manifest # None
    /\ parse_result.content_meta.manifest = runs.manifest
    /\ runs.manifest.content_meta = UploadedRow.content_meta
    /\ BusinessKeys(parse_result.content_meta) = UploadedRow.content_meta

\* The number of the lines whose type code, in upper case, is this one.
Occurrences(codes, data_type) ==
    Cardinality({k \in DOMAIN codes : Upper(codes[k]) = data_type})

\* C35 -- The packet summary is built for every tally parse_lines can
\* produce: it never raises, it has one entry per type code seen with the
\* number of its lines, and a code that is no registered code, hexadecimal
\* or not, is reported as UNKNOWN.
C35_UnknownReported ==
    packets_call.pc = "done" =>
        /\ packets_call.raised = None
        /\ \A k \in DOMAIN packets_call.codes :
               \E n \in DOMAIN packets_call.packets :
                   /\ packets_call.packets[n].type = Upper(packets_call.codes[k])
                   /\ packets_call.packets[n].count =
                          Occurrences(packets_call.codes, Upper(packets_call.codes[k]))
                   /\ FromHex(packets_call.codes[k]) = None =>
                          packets_call.packets[n].name =
                              [unknown |-> Upper(packets_call.codes[k])]

RECURSIVE TallySum(_, _)
TallySum(data_types, dts) ==
    IF dts = {} THEN 0
    ELSE LET d == CHOOSE x \in dts : TRUE
         IN  data_types[d] + TallySum(data_types, dts \ {d})

\* C36 -- For every file and every cut of its lines into batches the
\* parallel decoder, after merge_partial_results, returns the channel tables
\* and the occurrence tally of the single-stream decoder with inline merge
\* (or both fail); the tally sums to the number of sensor lines accepted.
C36_ReassemblyEqualsInline ==
    BothParsed =>
        /\ parsed.single.raised = parsed.parallel.raised
        /\ ~parsed.single.raised =>
               /\ parsed.parallel.result.tables = parsed.single.result.tables
               /\ parsed.parallel.result.data_types = parsed.single.result.data_types
               /\ TallySum(parsed.parallel.result.data_types, DataTypes) =
                      Cardinality({i \in DOMAIN text_lines :
                                      text_lines[i].kind = "sensor"})

\* The accelerometer table of a result (no table when the channel is empty).
AccTable(res) == IF "acc" \in DOMAIN res.tables THEN res.tables["acc"] ELSE <<>>

NoSerialLines ==
    {i \in DOMAIN text_lines :
        /\ text_lines[i].kind = "sensor" /\ text_lines[i].ch = "acc"
        /\ FromBytes(text_lines[i]).serial_number = NoSerial}

\* Every accelerometer line without a serial number is an output record of
\* its own: as many such records as such lines, none of them joined.
OwnRecords(res) ==
    LET t == AccTable(res)
        own == {k \in DOMAIN t : t[k].serial_number = NoSerial}
    IN  /\ Cardinality(own) = Cardinality(NoSerialLines)
        /\ \A k \in own :
               \E i \in NoSerialLines : t[k].data = FromBytes(text_lines[i]).data

\* C37 -- Continuation merge joins only records that carry a serial number:
\* a record of the base wire variant, or one whose header could not be
\* decoded, is emitted as an output record of its own by both decoders.
C37_NoSerialOwnRecord ==
    /\ (parsed.single # None /\ ~parsed.single.raised) =>
           OwnRecords(parsed.single.result)
    /\ (parsed.parallel # None /\ ~parsed.parallel.raised) =>
           OwnRecords(parsed.parallel.result)

\* C39 -- A download task that was queued or streaming when stop_all was
\* called ends in state cancelled and registers no file, whatever
\* reset_cancel does before the task reads the flag again.
C39_StoppedEndsCancelled ==
    (download.pc = "done" /\ download.stopped) =>
        /\ task.state = "cancelled"
        /\ sensor_files = {}
        /\ physical_files = [h \in {} |-> None]

\* C40 -- In every terminal state of a download task (success, failed or
\* cancelled) its temporary file is gone from the raw directory: renamed
\* to the blob path or deleted.
C40_TempFileGone ==
    task.state \in {"success", "failed", "cancelled"} =>
        DownloadTemp \notin DOMAIN raw_dir

====
